---- MODULE Spec2Model ----
(***************************************************************************)
(* A model of the host-side ESP serial flasher core: the protocol engine   *)
(* of src/src/protocol.c (command frames, response filtering, sequence     *)
(* numbers) and the session manager of src/unnamed/part_000 (connect,      *)
(* register access, flash-size probe, streaming writes, MD5 input).        *)
(*                                                                         *)
(* The port (serial I/O, timers, delays, debug sink) is the environment:   *)
(* every call the core makes to it is appended to `events`, and what the   *)
(* target sends back is an input of each exchange.                         *)
(***************************************************************************)
EXTENDS Integers, Sequences, FiniteSets, TLC

(***************************************************************************)
(* uint32_t.  TLC's integers stop at 2^31-1, so a 32-bit word is the pair  *)
(* <<high half, low half>> of its 16-bit halves and the arithmetic of the  *)
(* C code is done on the halves, modulo 2^32 as the C standard requires    *)
(* for unsigned operands.                                                  *)
(***************************************************************************)
Half == 2^16

\* The word holding the small natural n (n < 2^31).
FromNat(n) == <<n \div Half, n % Half>>

\* The natural number a word stands for; only used on words below 2^31.
ToNat(x) == x[1] * Half + x[2]

IsSmall(x) == x[1] < 2^15

Zero32 == <<0, 0>>

Add32(a, b) ==
    LET lo == a[2] + b[2]
        hi == a[1] + b[1] + (lo \div Half)
    IN  <<hi % Half, lo % Half>>

Sub32(a, b) ==
    LET lo == a[2] - b[2]
        borrow == IF lo < 0 THEN 1 ELSE 0
        hi == a[1] - b[1] - borrow
    IN  <<(hi + Half) % Half, (lo + Half) % Half>>

Gt32(a, b) == a[1] > b[1] \/ (a[1] = b[1] /\ a[2] > b[2])

Lt32(a, b) == Gt32(b, a)

\* x * y modulo 2^16 for 16-bit x, y, without leaving TLC's integers.
MulHalfMod(x, y) ==
    ((x * (y % 256)) + ((x * (y \div 256)) % 256) * 256) % Half

\* The full 32-bit product of two 16-bit halves, as a word.
MulHalves(x, y) ==
    LET p == x * (y % 256)                 \* < 2^24
        q == x * (y \div 256)              \* < 2^24, weighs 2^8
        s == p + (q % 256) * 256           \* < 2^25
    IN  <<((s \div Half) + (q \div 256)) % Half, s % Half>>

\* a * b modulo 2^32.
Mul32(a, b) ==
    LET ll == MulHalves(a[2], b[2])
        cross == (MulHalfMod(a[1], b[2]) + MulHalfMod(a[2], b[1])) % Half
    IN  <<(ll[1] + cross) % Half, ll[2]>>

\* Bit i (0 = least significant) of a word.
Bit32(a, i) == IF i >= 16 THEN (a[1] \div (2^(i - 16))) % 2 ELSE (a[2] \div (2^i)) % 2

\* Unsigned division a / b (b # 0), bit by bit from the top: `r` is the running
\* remainder (below b, so 2r+1 needs 33 bits: its high half may reach 2^17) and
\* `q` the quotient built so far.
RECURSIVE DivBits(_, _, _, _, _)
DivBits(a, b, i, q, r) ==
    IF i < 0 THEN q
    ELSE LET lo == 2 * r[2] + Bit32(a, i)
             r2 == <<2 * r[1] + (lo \div Half), lo % Half>>
             lo3 == r2[2] - b[2]
         IN  IF r2[1] > b[1] \/ (r2[1] = b[1] /\ r2[2] >= b[2])
             THEN DivBits(a, b, i - 1,
                          IF i >= 16 THEN <<q[1] + 2^(i - 16), q[2]>>
                                     ELSE <<q[1], q[2] + 2^i>>,
                          <<r2[1] - b[1] - (IF lo3 < 0 THEN 1 ELSE 0),
                            (lo3 + Half) % Half>>)
             ELSE DivBits(a, b, i - 1, q, r2)

Div32(a, b) == DivBits(a, b, 31, Zero32, Zero32)

\* 1 << n for 0 <= n < 32.
Shl1(n) == IF n >= 16 THEN <<2^(n - 16), 0>> ELSE <<0, 2^n>>

\* x >> 16.
Shr16(x) == <<0, x[1]>>


(***************************************************************************)
(* Bounds of the model.                                                    *)
(***************************************************************************)
\* Longest stream of frames the target delivers before a deadline lapses
\* (register access, begin, data and end exchanges).
MaxRx == 2
\* Most replies a target sends to one SYNC probe.
MaxSyncReplies == 9
\* Most SYNC attempts of one connect the model follows.
MaxSyncAttempts == 4

(***************************************************************************)
(* esp_loader_error_t, the opcodes and the response frames.                *)
(***************************************************************************)
ESP_LOADER_SUCCESS == "SUCCESS"
ESP_LOADER_ERROR_FAIL == "FAIL"
ESP_LOADER_ERROR_TIMEOUT == "TIMEOUT"
ESP_LOADER_ERROR_IMAGE_SIZE == "IMAGE_SIZE"
ESP_LOADER_ERROR_INVALID_PARAM == "INVALID_PARAM"
ESP_LOADER_ERROR_UNSUPPORTED_CHIP == "UNSUPPORTED_CHIP"
ESP_LOADER_ERROR_UNSUPPORTED_FUNC == "UNSUPPORTED_FUNC"
ESP_LOADER_ERROR_INVALID_RESPONSE == "INVALID_RESPONSE"

WRITE_DIRECTION == 0
READ_DIRECTION == 1

\* error_code_t values the log names, and one byte it does not know.
KnownErrors == {"INVALID_CRC", "INVALID_COMMAND", "COMMAND_FAILED", "FLASH_WRITE_ERR",
                "FLASH_READ_ERR", "READ_LENGTH_ERR", "DEFLATE_ERROR"}
UnknownError == "0x42"

\* A response frame as SLIP_receive_packet hands it over: the common header
\* (direction, command, value) and the status tail (failed, error).
Response(dir, cmd, value, failed, error) ==
    [direction |-> dir, command |-> cmd, value |-> value, failed |-> failed, error |-> error]

\* Register / value words the target may answer with.
StaleValue == <<43981, 4660>>
RespValues == {Zero32, <<36864, 1>>}

\* Another opcode than cmd: a stale reply to an earlier request.
OtherOp(cmd) == IF cmd = "READ_REG" THEN "WRITE_REG" ELSE "READ_REG"

\* The frames a target may deliver while the core waits for the reply to cmd:
\* good replies, failed replies, replies to another command, and frames that
\* carry the request direction.
FramesFor(cmd, values) ==
    {Response(READ_DIRECTION, cmd, v, 0, "") : v \in values}
    \cup {Response(READ_DIRECTION, cmd, StaleValue, 1, e) : e \in {"INVALID_CRC", UnknownError}}
    \cup {Response(READ_DIRECTION, OtherOp(cmd), StaleValue, 1, "COMMAND_FAILED"),
          Response(WRITE_DIRECTION, cmd, StaleValue, 1, "DEFLATE_ERROR")}

SeqsUpTo(S, n) == UNION {[1..k -> S] : k \in 0..n}

\* What the environment decides about one exchange: `fail` is the SLIP send
\* call that fails (0: none) with error failErr, and rx the frames that arrive
\* before the armed deadline lapses.
Env(rx, fail, failErr) == [rx |-> rx, fail |-> fail, failErr |-> failErr]

NoEnv == Env(<<>>, 0, "")

SendFailures(calls) ==
    {Env(<<>>, k, e) : k \in 1..calls, e \in {ESP_LOADER_ERROR_TIMEOUT, ESP_LOADER_ERROR_FAIL}}

\* The same for the exchanges inside a longer call: at most one frame arrives,
\* or the frame's own send fails.
EnvsLite(cmd, values) ==
    {Env(rx, 0, "") : rx \in SeqsUpTo(FramesFor(cmd, values), 1)}
    \cup {Env(<<>>, 2, ESP_LOADER_ERROR_TIMEOUT)}

EnvsFor(cmd, values, calls) ==
    {Env(rx, 0, "") : rx \in SeqsUpTo(FramesFor(cmd, values), MaxRx)} \cup SendFailures(calls)

(***************************************************************************)
(* Port calls, as entries of `events`.                                     *)
(***************************************************************************)
EvTimer(ms) == [ev |-> "start_timer", ms |-> ms]
EvDelay(ms) == [ev |-> "delay_ms", ms |-> ms]
EvPrint(str) == [ev |-> "debug_print", str |-> str]
\* A frame on the wire: `parts` counts the SLIP calls that went through
\* (opening delimiter, header with payload, [data,] closing delimiter).
EvSend(frame, data, parts) == [ev |-> "send", frame |-> frame, data |-> data, parts |-> parts]

DEFAULT_TIMEOUT == 1000

(***************************************************************************)
(* protocol.c: the engine.                                                 *)
(***************************************************************************)
log_loader_internal_error(error) ==
    <<EvPrint("Error: "),
      EvPrint(IF error \in KnownErrors THEN error ELSE "UNKNOWN ERROR"),
      EvPrint("\n")>>

\* SLIP_receive_packet under the armed deadline: the next frame of rx, or
\* TIMEOUT once the stream has run dry.
SLIP_receive_packet(rx) ==
    IF rx = <<>> THEN [err |-> ESP_LOADER_ERROR_TIMEOUT, rest |-> <<>>]
    ELSE [err |-> ESP_LOADER_SUCCESS, frame |-> Head(rx), rest |-> Tail(rx)]

\* check_response without the direction test of line 148.
RECURSIVE check_response_any_direction(_, _)
check_response_any_direction(cmd, rx) ==
    LET p == SLIP_receive_packet(rx)
    IN  IF p.err # ESP_LOADER_SUCCESS
        THEN [err |-> p.err, written |-> FALSE, value |-> Zero32, log |-> <<>>, rest |-> p.rest]
        ELSE IF p.frame.command # cmd
        THEN check_response_any_direction(cmd, p.rest)
        ELSE IF p.frame.failed # 0
        THEN [err |-> ESP_LOADER_ERROR_INVALID_RESPONSE, written |-> FALSE, value |-> Zero32,
              log |-> log_loader_internal_error(p.frame.error), rest |-> p.rest]
        ELSE [err |-> ESP_LOADER_SUCCESS, written |-> TRUE, value |-> p.frame.value,
              log |-> <<>>, rest |-> p.rest]

\* check_response storing the value before it looks at the status tail.
RECURSIVE check_response_store_first(_, _)
check_response_store_first(cmd, rx) ==
    LET p == SLIP_receive_packet(rx)
    IN  IF p.err # ESP_LOADER_SUCCESS
        THEN [err |-> p.err, written |-> FALSE, value |-> Zero32, log |-> <<>>, rest |-> p.rest]
        ELSE IF (p.frame.direction # READ_DIRECTION) \/ (p.frame.command # cmd)
        THEN check_response_store_first(cmd, p.rest)
        ELSE IF p.frame.failed # 0
        THEN [err |-> ESP_LOADER_ERROR_INVALID_RESPONSE, written |-> TRUE,
              value |-> p.frame.value,
              log |-> log_loader_internal_error(p.frame.error), rest |-> p.rest]
        ELSE [err |-> ESP_LOADER_SUCCESS, written |-> TRUE, value |-> p.frame.value,
              log |-> <<>>, rest |-> p.rest]

\* check_response: read frames until one has the read direction and the
\* command of the request; then the status tail decides.  `written` says
\* whether *reg_value was assigned (the callers that pass NULL ignore it).
RECURSIVE check_response(_, _)
check_response(cmd, rx) ==
    LET p == SLIP_receive_packet(rx)
    IN  IF p.err # ESP_LOADER_SUCCESS
        THEN [err |-> p.err, written |-> FALSE, value |-> Zero32, log |-> <<>>, rest |-> p.rest]
        ELSE IF (p.frame.direction # READ_DIRECTION) \/ (p.frame.command # cmd)
        THEN check_response(cmd, p.rest)
        ELSE IF p.frame.failed # 0
        THEN [err |-> ESP_LOADER_ERROR_INVALID_RESPONSE, written |-> FALSE, value |-> Zero32,
              log |-> log_loader_internal_error(p.frame.error), rest |-> p.rest]
        ELSE [err |-> ESP_LOADER_SUCCESS, written |-> TRUE, value |-> p.frame.value,
              log |-> <<>>, rest |-> p.rest]

\* The receive loop of send_cmd: response_cnt replies, the first error ends it
\* (*reg_value keeps what an earlier reply stored).
RECURSIVE recv_loop(_, _, _, _)
recv_loop(cmd, recv_left, rx, last) ==
    IF recv_left = 0 THEN last
    ELSE LET next(r) ==
                 IF r.err # ESP_LOADER_SUCCESS
                 THEN IF r.written THEN r
                      ELSE [r EXCEPT !.written = last.written, !.value = last.value]
                 ELSE recv_loop(cmd, recv_left - 1, r.rest, r)
         IN  next(check_response(cmd, rx))

\* One reply for every command, SYNC included.
response_cnt_always_one(command) == 1

response_cnt(command) == IF command = "SYNC" THEN 8 ELSE 1

\* send_cmd: delimiter, frame, delimiter (each may fail), then the replies.
send_cmd(cmd, env) ==
    LET parts == IF env.fail = 0 THEN 3 ELSE env.fail - 1
        sent == IF parts = 0 THEN <<>> ELSE <<EvSend(cmd, <<>>, parts)>>
        none == [err |-> ESP_LOADER_SUCCESS, written |-> FALSE, value |-> Zero32,
                 log |-> <<>>, rest |-> env.rx]
        reply(r) ==
            [err |-> r.err, written |-> r.written, value |-> r.value, evs |-> sent \o r.log]
    IN  IF env.fail # 0
        THEN [err |-> env.failErr, written |-> FALSE, value |-> Zero32, evs |-> sent]
        ELSE reply(recv_loop(cmd.command, response_cnt(cmd.command), env.rx, none))

\* send_cmd_with_data: delimiter, header, data, delimiter, then one reply.
send_cmd_with_data(cmd, data, env) ==
    LET parts == IF env.fail = 0 THEN 4 ELSE env.fail - 1
        sent == IF parts = 0 THEN <<>> ELSE <<EvSend(cmd, data, parts)>>
        r == check_response(cmd.command, env.rx)
    IN  IF env.fail # 0
        THEN [err |-> env.failErr, evs |-> sent]
        ELSE [err |-> r.err, evs |-> sent \o r.log]

\* The `size` field of command_common_t holds 16 bits: an initializer that
\* does not fit is reduced modulo 2^16.
SizeFieldModulus == 65536

\* The common header and payload of a request; CMD_SIZE counts the payload's
\* 32-bit fields.
Command(op, size, checksum, payload) ==
    [direction |-> WRITE_DIRECTION, command |-> op, size |-> size % SizeFieldModulus,
     checksum |-> checksum, payload |-> payload]

loader_write_reg_cmd(address, value, mask, delay_us, env) ==
    send_cmd(Command("WRITE_REG", 16, 0,
                     [address |-> address, value |-> value, mask |-> mask,
                      delay_us |-> delay_us]), env)

loader_read_reg_cmd(address, env) ==
    send_cmd(Command("READ_REG", 4, 0, [address |-> address]), env)

\* The target-capability table (esp_targets.c): the flag the session hands to
\* the begin commands.
encryption_in_begin_flash_cmd(target) == target \in {"ESP8266_CHIP", "ESP32_CHIP"}

\* target_chip_t as a C truth value: ESP8266_CHIP is the enum's 0.
TargetAsBool(target) == target # "ESP8266_CHIP"

\* loader_flash_begin_cmd / loader_flash_defl_begin_cmd.  The struct has five
\* words; `size` and the bytes sent are 20, less 4 when `encryption` is set,
\* which drops the trailing `encrypted` word.  s_sequence_number is zeroed
\* before the frame is sent.
BeginCommand(op, offset, erase_size, block_size, blocks_to_write, encryption) ==
    LET encryption_size == IF encryption THEN 4 ELSE 0
        words == [erase_size |-> erase_size, packet_count |-> blocks_to_write,
                  packet_size |-> block_size, offset |-> offset]
    IN  Command(op, 20 - encryption_size, 0,
                IF encryption THEN words
                ELSE [erase_size |-> erase_size, packet_count |-> blocks_to_write,
                      packet_size |-> block_size, offset |-> offset, encrypted |-> Zero32])

loader_flash_begin_cmd(offset, erase_size, block_size, blocks_to_write, encryption, e) ==
    [send_cmd(BeginCommand("FLASH_BEGIN", offset, erase_size, block_size,
                           blocks_to_write, encryption), e)
     EXCEPT !.value = 0]

loader_sync_cmd(e) ==
    send_cmd(Command("SYNC", 36, 0, [sync_sequence |-> "07 07 12 20 55*32"]), e)

loader_spi_attach_cmd(config, e) ==
    send_cmd(Command("SPI_ATTACH", 8, 0, [configuration |-> config, zero |-> Zero32]), e)

(***************************************************************************)
(* Session manager: register access.                                       *)
(***************************************************************************)
esp_loader_read_register(address, env) ==
    [loader_read_reg_cmd(address, env)
     EXCEPT !.evs = <<EvTimer(FromNat(DEFAULT_TIMEOUT))>> \o @]

esp_loader_write_register(address, reg_value, env) ==
    [loader_write_reg_cmd(address, reg_value, <<65535, 65535>>, Zero32, env)
     EXCEPT !.evs = <<EvTimer(FromNat(DEFAULT_TIMEOUT))>> \o @]


(***************************************************************************)
(* State.                                                                  *)
(***************************************************************************)
VARIABLES
    pc,                 \* "idle", or the step the call in progress has reached
    call,               \* the API call in progress or last finished, with its arguments
    ret,                \* what the last finished call returned
    events,             \* the port calls of the call in progress / last finished, in order
    env,                \* what the environment decided about the last exchange
    regOut,             \* the caller's word that esp_loader_read_register writes to
    s_sequence_number,  \* protocol.c: static uint32_t s_sequence_number
    s_flash_write_size, \* static uint32_t s_flash_write_size
    s_target,           \* static target_chip_t s_target
    s_md5_context,      \* the bytes fed to the MD5 accumulator since MD5Init
    md5_finalized,      \* whether MD5Final has run on the accumulator since MD5Init
    s_start_address,    \* static uint32_t s_start_address
    s_image_size,       \* static uint32_t s_image_size
    trials,             \* esp_loader_connect: int32_t trials
    err,                \* esp_loader_connect: esp_loader_error_t err
    fs,                 \* locals of esp_loader_flash_start / flash_defl_start
    spi,                \* locals of spi_flash_command and detect_flash_size
    seqLog,             \* history: sequence numbers of the data packets put on the
                        \* wire since the last *_start call
    writes,             \* history: size and result of the write calls made since
                        \* the last *_start call
    streaming           \* history: "none", or the kind ("raw", "defl") of the
                        \* operation whose *_start returned success and that
                        \* has not been finished

vars == <<pc, call, ret, events, env, regOut, s_sequence_number, s_flash_write_size,
          s_target, s_md5_context, md5_finalized, s_start_address, s_image_size, trials,
          err, fs, spi,
          seqLog, writes, streaming>>

session == <<s_sequence_number, s_flash_write_size, s_target, s_md5_context,
             md5_finalized, s_start_address, s_image_size>>
md5vars == <<s_md5_context, md5_finalized, s_start_address, s_image_size>>
connectLocals == <<trials, err>>
flashLocals == <<fs, spi>>
history == <<seqLog, writes, streaming>>

ESP_UNKNOWN_CHIP == "ESP_UNKNOWN_CHIP"
ESP8266_CHIP == "ESP8266_CHIP"
Targets == {ESP8266_CHIP, "ESP32_CHIP", "ESP32S3_CHIP"}

\* What the caller's register word holds before the first read.
Poison == <<57005, 48879>>

NoCall == [fn |-> "none"]
NoFs == [defl |-> FALSE, offset |-> Zero32, image_size |-> Zero32, block_size |-> Zero32,
         blocks_to_write |-> Zero32, erase_size |-> Zero32, flash_size |-> Zero32]
NoSpi == [old_spi_usr |-> Zero32, old_spi_usr2 |-> Zero32, trials |-> Zero32,
          flash_id |-> Zero32]

Init ==
    /\ pc = "idle"
    /\ call = NoCall
    /\ ret = ESP_LOADER_SUCCESS
    /\ events = <<>>
    /\ env = NoEnv
    /\ regOut = Poison
    /\ s_sequence_number = 0
    /\ s_flash_write_size = Zero32
    /\ s_target = ESP_UNKNOWN_CHIP
    /\ s_md5_context = <<>>
    /\ md5_finalized = FALSE
    /\ s_start_address = Zero32
    /\ s_image_size = Zero32
    /\ trials = 0
    /\ err = ESP_LOADER_SUCCESS
    /\ fs = NoFs
    /\ spi = NoSpi
    /\ seqLog = <<>>
    /\ writes = <<>>
    /\ streaming = "none"

(***************************************************************************)
(* Register access, called by the user.                                    *)
(***************************************************************************)
\* Symbolic addresses of the registers the user reads and writes.
UserRegisters == {"USR", "W0"}

ReadRegister(address, e) ==
    /\ pc = "idle"
    /\ LET r == esp_loader_read_register(address, e)
       IN  /\ events' = r.evs
           /\ ret' = r.err
           /\ regOut' = IF r.written THEN r.value ELSE regOut
    /\ call' = [fn |-> "esp_loader_read_register", address |-> address]
    /\ env' = e
    /\ UNCHANGED <<pc, session, connectLocals, flashLocals, history>>

WriteRegister(address, value, e) ==
    /\ pc = "idle"
    /\ LET r == esp_loader_write_register(address, value, e)
       IN  /\ events' = r.evs
           /\ ret' = r.err
    /\ call' = [fn |-> "esp_loader_write_register", address |-> address, value |-> value]
    /\ env' = e
    /\ UNCHANGED <<pc, regOut, session, connectLocals, flashLocals, history>>

UserReadRegister ==
    \E a \in UserRegisters, e \in EnvsFor("READ_REG", RespValues, 3) : ReadRegister(a, e)

UserWriteRegister ==
    \E a \in UserRegisters, v \in RespValues, e \in EnvsFor("WRITE_REG", RespValues, 3) :
        WriteRegister(a, v, e)

(***************************************************************************)
(* esp_loader_connect.                                                     *)
(***************************************************************************)
Pending == "PENDING"

SyncOk == Response(READ_DIRECTION, "SYNC", Zero32, 0, "")
SyncFailed == Response(READ_DIRECTION, "SYNC", Zero32, 1, "INVALID_COMMAND")
SyncStale == Response(READ_DIRECTION, "READ_REG", StaleValue, 0, "")

\* What a target may answer to a SYNC probe before the sync deadline: k good
\* replies, possibly a failed reply behind them, or a stale frame ahead of
\* a full set.
SyncStreams ==
    {[i \in 1..k |-> SyncOk] \o tail : k \in 0..MaxSyncReplies, tail \in {<<>>, <<SyncFailed>>}}
    \cup {<<SyncStale>> \o [i \in 1..8 |-> SyncOk]}

\* The SYNC frame may also fail to go out: at its opening or closing delimiter.
SyncEnvs ==
    {Env(rx, 0, "") : rx \in SyncStreams}
    \cup {Env(<<>>, k, x) : k \in {1, 3}, x \in {ESP_LOADER_ERROR_TIMEOUT, ESP_LOADER_ERROR_FAIL}}

\* Iterations of the do-while loop begun so far: each arms the timer once.
SyncAttempts == Len(SelectSeq(events, LAMBDA x : x.ev = "start_timer"))

\* Lines 97-99: take the budget, strap the chip into the bootloader.
ConnectCall(connect_args) ==
    /\ pc = "idle"
    /\ pc' = "connect_sync"
    /\ call' = [fn |-> "esp_loader_connect", sync_timeout |-> connect_args.sync_timeout,
                trials |-> connect_args.trials]
    /\ ret' = Pending
    /\ trials' = connect_args.trials
    /\ err' = ESP_LOADER_SUCCESS
    /\ events' = <<[ev |-> "enter_bootloader"]>>
    /\ env' = NoEnv
    /\ UNCHANGED <<regOut, session, flashLocals, history>>

\* Retrying after any failed attempt, not only after a timeout.
SyncRetries_any_error(e) == e # ESP_LOADER_SUCCESS

\* Line 104: the attempt is repeated after a timeout only.
SyncRetries(e) == e = ESP_LOADER_ERROR_TIMEOUT

\* Lines 101-112: one turn of the do-while loop.
ConnectSync(e) ==
    /\ pc = "connect_sync"
    /\ SyncAttempts < MaxSyncAttempts
    /\ LET r == loader_sync_cmd(e)
           evs == events \o <<EvTimer(FromNat(call.sync_timeout))>> \o r.evs
       IN  /\ err' = r.err
           /\ IF SyncRetries(r.err)
              THEN /\ trials' = trials - 1
                   /\ IF trials - 1 = 0
                      THEN /\ pc' = "idle"
                           /\ ret' = ESP_LOADER_ERROR_TIMEOUT
                           /\ events' = evs
                      ELSE /\ pc' = "connect_sync"
                           /\ ret' = ret
                           /\ events' = evs \o <<EvDelay(100)>>
              ELSE /\ trials' = trials
                   /\ events' = evs
                   /\ IF r.err # ESP_LOADER_SUCCESS
                      THEN pc' = "idle" /\ ret' = r.err
                      ELSE pc' = "connect_detect" /\ ret' = ret
    /\ env' = e
    /\ UNCHANGED <<call, regOut, session, flashLocals, history>>

\* loader_detect_chip (esp_targets.c): read the magic register and look the
\* value up in the table of known chips.
MagicValue(target) ==
    CASE target = "ESP8266_CHIP" -> <<65520, 49409>>
      [] target = "ESP32_CHIP" -> <<240, 7555>>
      [] target = "ESP32S3_CHIP" -> <<0, 9>>
UnknownMagic == <<4660, 22136>>
MagicValues == {MagicValue(t) : t \in Targets} \cup {UnknownMagic}

loader_detect_chip(e) ==
    LET known(value) == {t \in Targets : MagicValue(t) = value}
        detected(r) ==
            IF r.err # ESP_LOADER_SUCCESS
            THEN [err |-> r.err, evs |-> r.evs, found |-> FALSE, target |-> ESP_UNKNOWN_CHIP]
            ELSE IF known(r.value) = {}
            THEN [err |-> ESP_LOADER_ERROR_UNSUPPORTED_CHIP, evs |-> r.evs, found |-> FALSE,
                  target |-> ESP_UNKNOWN_CHIP]
            ELSE [err |-> ESP_LOADER_SUCCESS, evs |-> r.evs, found |-> TRUE,
                  target |-> CHOOSE t \in known(r.value) : TRUE]
    IN  detected(esp_loader_read_register("CHIP_DETECT_MAGIC_REG_ADDR", e))

\* What a collaborator of esp_targets.c handed back, as an entry of `events`.
EvDetect(d) == [ev |-> "loader_detect_chip", err |-> d.err, target |-> d.target]
EvSpiConfig(cfg) == [ev |-> "loader_read_spi_config", err |-> cfg.err, config |-> cfg.config]

\* Line 116 with the ESP8266 treated as every other target.
connect_branch_always_attach(target) == "connect_attach"

\* Line 116: the branch on the detected target.
connect_branch(target) ==
    IF target = ESP8266_CHIP THEN "connect_begin" ELSE "connect_attach"

\* Line 114-116.
ConnectDetect(e) ==
    /\ pc = "connect_detect"
    /\ \E d \in {loader_detect_chip(e)} :
           /\ events' = events \o d.evs \o <<EvDetect(d)>>
           /\ s_target' = IF d.found THEN d.target ELSE s_target
           /\ IF d.err # ESP_LOADER_SUCCESS
              THEN pc' = "idle" /\ ret' = d.err
              ELSE /\ ret' = ret
                   /\ pc' = connect_branch(d.target)
    /\ env' = e
    /\ UNCHANGED <<call, regOut, s_sequence_number, s_flash_write_size, md5vars,
                   connectLocals, flashLocals, history>>

\* Line 117: the ESP8266 branch.
ConnectBegin(e) ==
    /\ pc = "connect_begin"
    /\ LET r == loader_flash_begin_cmd(Zero32, Zero32, Zero32, Zero32,
                                       TargetAsBool(s_target), e)
       IN  /\ events' = events \o r.evs
           /\ err' = r.err
           /\ ret' = r.err
           /\ s_sequence_number' = r.value
    /\ pc' = "idle"
    /\ env' = e
    /\ UNCHANGED <<call, regOut, s_flash_write_size, s_target, md5vars, trials,
                   flashLocals, history>>

\* loader_read_spi_config (esp_targets.c): the pin configuration word, or an
\* error.
SpiConfigs == {[err |-> ESP_LOADER_SUCCESS, config |-> Zero32],
               [err |-> ESP_LOADER_SUCCESS, config |-> <<0, 2835>>],
               [err |-> ESP_LOADER_ERROR_TIMEOUT, config |-> Zero32]}

\* Lines 119-121: every other target.
ConnectAttach(cfg, e) ==
    /\ pc = "connect_attach"
    /\ LET r == loader_spi_attach_cmd(cfg.config, e)
       IN  IF cfg.err # ESP_LOADER_SUCCESS
           THEN /\ events' = Append(events, EvSpiConfig(cfg))
                /\ ret' = cfg.err
                /\ env' = NoEnv
                /\ UNCHANGED err
           ELSE /\ events' = events \o <<EvSpiConfig(cfg),
                                         EvTimer(FromNat(DEFAULT_TIMEOUT))>> \o r.evs
                /\ err' = r.err
                /\ ret' = r.err
                /\ env' = e
    /\ pc' = "idle"
    /\ UNCHANGED <<call, regOut, session, trials, flashLocals, history>>

\* The budgets and the sync window a caller asks for.
TrialBudgets == {-1, 0, 1, 2, 3}
SyncTimeouts == {100}

UserConnect ==
    \E t \in TrialBudgets, w \in SyncTimeouts : ConnectCall([sync_timeout |-> w, trials |-> t])

\* The scenario of one session: connect until a target has been detected.
FirstConnect == s_target = ESP_UNKNOWN_CHIP /\ UserConnect

StepConnect ==
    \/ \E e \in SyncEnvs : ConnectSync(e)
    \/ \E e \in EnvsLite("READ_REG", MagicValues) : ConnectDetect(e)
    \/ \E e \in EnvsLite("FLASH_BEGIN", {Zero32}) : ConnectBegin(e)
    \/ \E cfg \in SpiConfigs, e \in EnvsLite("SPI_ATTACH", {Zero32}) : ConnectAttach(cfg, e)

NextConnect == FirstConnect \/ StepConnect

SpecConnect == Init /\ [][NextConnect]_vars

NextReg == UserReadRegister \/ UserWriteRegister

SpecReg == Init /\ [][NextReg]_vars


(***************************************************************************)
(* protocol.c: the commands of a streaming operation.                      *)
(***************************************************************************)
\* a ^ b for two bytes.
Xor8(a, b) ==
    LET bit(i) == (((a \div (2^i)) + (b \div (2^i))) % 2) * (2^i)
    IN  bit(0) + (bit(1) + (bit(2) + (bit(3) + (bit(4) + (bit(5) + (bit(6) + bit(7)))))))

\* data[lo] ^ ... ^ data[hi], 0 for an empty range; XOR is associative, so
\* the halves may be folded apart.
RECURSIVE XorRange(_, _, _)
XorRange(data, lo, hi) ==
    IF lo > hi THEN 0
    ELSE IF lo = hi THEN data[lo]
    ELSE Xor8(XorRange(data, lo, (lo + hi) \div 2),
              XorRange(data, ((lo + hi) \div 2) + 1, hi))

\* The loop of compute_checksum: checksum ^= *data++ for every byte.
XorFold(checksum, data) == Xor8(checksum, XorRange(data, 1, Len(data)))

\* The XOR of the first `size` bytes of data, seeded with 0xEF.
\* compute_checksum starting from 0.
compute_checksum_unseeded(data, size) == XorFold(0, SubSeq(data, 1, size))

compute_checksum(data, size) == XorFold(239, SubSeq(data, 1, size))

loader_flash_defl_begin_cmd(offset, uncompressed_size, block_size, blocks_to_write, encryption, e) ==
    [send_cmd(BeginCommand("FLASH_DEFL_BEGIN", offset, uncompressed_size, block_size,
                           blocks_to_write, encryption), e)
     EXCEPT !.value = 0]

\* loader_flash_data_cmd: the header takes the sequence number and the counter
\* moves on before anything is sent; `size` bytes of data follow the header.
\* `seq` is s_sequence_number before and after the call.
loader_flash_data_cmd(data, size, seq, e) ==
    LET r == send_cmd_with_data(
                 Command("FLASH_DATA", 16 + size, compute_checksum(data, size),
                         [data_size |-> size, sequence_number |-> seq,
                          zero_0 |-> 0, zero_1 |-> 0]),
                 SubSeq(data, 1, size), e)
    IN  [err |-> r.err, evs |-> r.evs, seq |-> seq + 1]

loader_flash_defl_data_cmd(data, size, seq, e) ==
    LET r == send_cmd_with_data(
                 Command("FLASH_DEFL_DATA", 16 + size, compute_checksum(data, size),
                         [data_size |-> size, sequence_number |-> seq,
                          zero_0 |-> 0, zero_1 |-> 0]),
                 SubSeq(data, 1, size), e)
    IN  [err |-> r.err, evs |-> r.evs, seq |-> seq + 1]

loader_flash_end_cmd(stay_in_loader, e) ==
    send_cmd(Command("FLASH_END", 4, 0, [stay_in_loader |-> stay_in_loader]), e)

loader_flash_defl_end_cmd(stay_in_loader, e) ==
    send_cmd(Command("FLASH_DEFL_END", 4, 0, [stay_in_loader |-> stay_in_loader]), e)

loader_spi_parameters(total_size, e) ==
    send_cmd(Command("SPI_SET_PARAMS", 24, 0,
                     [id |-> Zero32, total_size |-> total_size,
                      block_size |-> FromNat(64 * 1024), sector_size |-> FromNat(4 * 1024),
                      page_size |-> FromNat(256), status_mask |-> FromNat(65535)]), e)

(***************************************************************************)
(* Session manager: the flash-size probe and the start of an operation.    *)
(***************************************************************************)
DEFAULT_FLASH_TIMEOUT == 3000
ERASE_REGION_TIMEOUT_PER_MB == 10000
PADDING_PATTERN == 255
SPI_FLASH_READ_ID == 159

\* timeout_per_mb: time_per_mb * (size_bytes / 1e6), at least
\* DEFAULT_FLASH_TIMEOUT.
timeout_per_mb(size_bytes, time_per_mb) ==
    LET timeout == Mul32(FromNat(time_per_mb), Div32(size_bytes, FromNat(1000000)))
    IN  IF Gt32(timeout, FromNat(DEFAULT_FLASH_TIMEOUT)) THEN timeout
        ELSE FromNat(DEFAULT_FLASH_TIMEOUT)

\* The register exchanges of spi_flash_command(SPI_FLASH_READ_ID, NULL, 0,
\* &flash_id, 24), by position: the register (a field of s_reg), and for a
\* write the value written.
SpiReadSteps == {"spi_save_usr", "spi_save_usr2", "spi_read_w0"}
SpiWriteSteps == {"spi_set_len", "spi_write_usr", "spi_write_usr2", "spi_clear_w0",
                  "spi_write_cmd", "spi_restore_usr", "spi_restore_usr2"}
ProbeSteps == SpiReadSteps \cup SpiWriteSteps \cup {"spi_poll"}

SPI_CMD_USR == <<4, 0>>

\* spi_set_data_lengths_8266(0, 24) writes USR1; spi_set_data_lengths(0, 24)
\* writes MISO_DLEN only.
SpiSetLen(target) ==
    IF target = ESP8266_CHIP
    THEN [address |-> "USR1", value |-> FromNat(23 * 256)]
    ELSE [address |-> "MISO_DLEN", value |-> FromNat(24 - 1)]

SpiReadStep(step) ==
    CASE step = "spi_save_usr" -> [address |-> "USR", next |-> "spi_save_usr2"]
      [] step = "spi_save_usr2" -> [address |-> "USR2", next |-> "spi_set_len"]
      [] step = "spi_read_w0" -> [address |-> "W0", next |-> "spi_restore_usr"]

SpiWriteStep(step, target, sp) ==
    CASE step = "spi_set_len" ->
            [address |-> SpiSetLen(target).address, value |-> SpiSetLen(target).value,
             next |-> "spi_write_usr"]
      [] step = "spi_write_usr" ->
            \* SPI_USR_CMD | SPI_USR_MISO
            [address |-> "USR", value |-> <<32768 + 4096, 0>>, next |-> "spi_write_usr2"]
      [] step = "spi_write_usr2" ->
            \* (7 << CMD_LEN_SHIFT) | cmd
            [address |-> "USR2", value |-> <<7 * 4096, SPI_FLASH_READ_ID>>,
             next |-> "spi_clear_w0"]
      [] step = "spi_clear_w0" ->
            [address |-> "W0", value |-> Zero32, next |-> "spi_write_cmd"]
      [] step = "spi_write_cmd" ->
            [address |-> "CMD", value |-> SPI_CMD_USR, next |-> "spi_poll"]
      [] step = "spi_restore_usr" ->
            [address |-> "USR", value |-> sp.old_spi_usr, next |-> "spi_restore_usr2"]
      [] step = "spi_restore_usr2" ->
            [address |-> "USR2", value |-> sp.old_spi_usr2, next |-> "spi_done"]

\* (cmd_reg & SPI_CMD_USR) == 0
CmdIdle(cmd_reg) == (cmd_reg[1] \div 4) % 2 = 0

\* detect_flash_size, given what spi_flash_command returned: the capacity code
\* is flash_id >> 16 and the size 1 << code.  *flash_size keeps the caller's 0
\* unless the probe succeeds.
detect_flash_size(spi_err, flash_id) ==
    LET size_id == Shr16(flash_id)
    IN  IF spi_err # ESP_LOADER_SUCCESS
        THEN [err |-> spi_err, flash_size |-> Zero32]
        ELSE IF Lt32(size_id, FromNat(18)) \/ Gt32(size_id, FromNat(24))
        THEN [err |-> ESP_LOADER_ERROR_UNSUPPORTED_CHIP, flash_size |-> Zero32]
        ELSE [err |-> ESP_LOADER_SUCCESS, flash_size |-> Shl1(ToNat(size_id))]

\* The delay the deflate variant puts at several places.
DeflDelay(f, ms) == IF f.defl THEN <<EvDelay(ms)>> ELSE <<>>

\* esp_loader_flash_start lines 258-262 (flash_defl_start 288-298): from
\* init_md5 to the timer of the BEGIN command.
before_begin(f) ==
    DeflDelay(f, 10) \o DeflDelay(f, 10) \o DeflDelay(f, 10)
    \o <<EvTimer(timeout_per_mb(f.erase_size, ERASE_REGION_TIMEOUT_PER_MB))>>

\* Line 249: image_size + offset > flash_size, in uint32_t.
image_fits(f, flash_size) == ~Gt32(Add32(f.image_size, f.offset), flash_size)

\* esp_loader_flash_start lines 248-256 (flash_defl_start 276-286): what
\* follows the return of detect_flash_size, up to the next exchange.
after_detect(f, d) ==
    IF d.err = ESP_LOADER_SUCCESS
    THEN IF ~image_fits(f, d.flash_size)
         THEN [next |-> "idle", ret |-> ESP_LOADER_ERROR_IMAGE_SIZE,
               evs |-> DeflDelay(f, 20), md5 |-> FALSE]
         ELSE [next |-> "flash_params", ret |-> Pending,
               evs |-> DeflDelay(f, 20) \o <<EvTimer(FromNat(DEFAULT_TIMEOUT))>>,
               md5 |-> FALSE]
    ELSE [next |-> "flash_begin", ret |-> Pending,
          evs |-> <<EvPrint("Flash size detection failed, falling back to default")>>
                  \o before_begin(f),
          md5 |-> TRUE]

StartCalls == {"esp_loader_flash_start", "esp_loader_flash_defl_start"}

\* Lines 243-247 (268-276): the block counts, the erase size and the block size
\* of the session; then the probe begins.  The target must be known: the probe
\* goes through s_reg.
FlashStartCall(defl, offset, image_size, compressed_size, block_size) ==
    /\ pc = "idle"
    /\ s_target # ESP_UNKNOWN_CHIP
    /\ LET one == FromNat(1)
           blocks_to_erase == Div32(Sub32(Add32(image_size, block_size), one), block_size)
           blocks_to_write ==
               IF defl
               THEN Div32(Sub32(Add32(compressed_size, block_size), one), block_size)
               ELSE blocks_to_erase
       IN  fs' = [defl |-> defl, offset |-> offset, image_size |-> image_size,
                  block_size |-> block_size, blocks_to_write |-> blocks_to_write,
                  erase_size |-> Mul32(block_size, blocks_to_erase),
                  flash_size |-> Zero32]
    /\ s_flash_write_size' = block_size
    /\ spi' = NoSpi
    /\ pc' = "spi_save_usr"
    /\ call' = IF defl
               THEN [fn |-> "esp_loader_flash_defl_start", offset |-> offset,
                     image_size |-> image_size, compressed_size |-> compressed_size,
                     block_size |-> block_size]
               ELSE [fn |-> "esp_loader_flash_start", offset |-> offset,
                     image_size |-> image_size, block_size |-> block_size]
    /\ ret' = Pending
    /\ events' = IF defl THEN <<EvDelay(20)>> ELSE <<>>
    /\ env' = NoEnv
    /\ seqLog' = <<>>
    /\ writes' = <<>>
    /\ streaming' = "none"
    /\ UNCHANGED <<regOut, s_sequence_number, s_target, md5vars, connectLocals>>

\* The probe goes on with the next register exchange.
ProbeContinues(next, sp, evs) ==
    /\ pc' = next
    /\ spi' = sp
    /\ events' = events \o evs
    /\ UNCHANGED <<ret, fs, md5vars>>

\* spi_flash_command returns spi_err, and detect_flash_size and the start
\* function run on to the next exchange or to the return.  Locals end with the
\* call.
ProbeReturns(spi_err, flash_id, evs) ==
    LET d == detect_flash_size(spi_err, flash_id)
        c == after_detect(fs, d)
    IN  /\ pc' = c.next
        /\ ret' = c.ret
        /\ events' = events \o evs \o c.evs
        /\ spi' = NoSpi
        /\ fs' = IF c.next = "idle" THEN NoFs ELSE [fs EXCEPT !.flash_size = d.flash_size]
        /\ IF c.md5
           THEN /\ s_start_address' = fs.offset
                /\ s_image_size' = fs.image_size
                /\ s_md5_context' = <<>>
                /\ md5_finalized' = FALSE
           ELSE UNCHANGED md5vars

SpiRead(e) ==
    /\ pc \in SpiReadSteps
    /\ LET step == SpiReadStep(pc)
           r == esp_loader_read_register(step.address, e)
       IN  IF r.err # ESP_LOADER_SUCCESS
           THEN ProbeReturns(r.err, Zero32, r.evs)
           ELSE ProbeContinues(step.next,
                               CASE pc = "spi_save_usr" -> [spi EXCEPT !.old_spi_usr = r.value]
                                 [] pc = "spi_save_usr2" -> [spi EXCEPT !.old_spi_usr2 = r.value]
                                 [] pc = "spi_read_w0" -> [spi EXCEPT !.flash_id = r.value],
                               r.evs)
    /\ env' = e
    /\ UNCHANGED <<call, regOut, s_sequence_number, s_flash_write_size, s_target,
                   connectLocals, history>>

SpiWrite(e) ==
    /\ pc \in SpiWriteSteps
    /\ LET step == SpiWriteStep(pc, s_target, spi)
           r == esp_loader_write_register(step.address, step.value, e)
       IN  IF r.err # ESP_LOADER_SUCCESS
           THEN ProbeReturns(r.err, Zero32, r.evs)
           ELSE IF step.next = "spi_done"
           THEN ProbeReturns(ESP_LOADER_SUCCESS, spi.flash_id, r.evs)
           ELSE ProbeContinues(step.next,
                               IF pc = "spi_write_cmd"
                               THEN [spi EXCEPT !.trials = FromNat(10)] ELSE spi,
                               r.evs)
    /\ env' = e
    /\ UNCHANGED <<call, regOut, s_sequence_number, s_flash_write_size, s_target,
                   connectLocals, history>>

\* One turn of `while (trials--)` (the test has passed: trials # 0 here), and,
\* when the loop ends, the test `trials == 0` behind it.  A busy read that
\* leaves trials at 0 fails the next loop test, whose decrement wraps.
SpiPoll(e) ==
    /\ pc = "spi_poll"
    /\ LET left == Sub32(spi.trials, FromNat(1))
           r == esp_loader_read_register("CMD", e)
       IN  IF r.err # ESP_LOADER_SUCCESS
           THEN ProbeReturns(r.err, Zero32, r.evs)
           ELSE IF CmdIdle(r.value)
           THEN IF left = Zero32
                THEN ProbeReturns(ESP_LOADER_ERROR_TIMEOUT, Zero32, r.evs)
                ELSE ProbeContinues("spi_read_w0", [spi EXCEPT !.trials = left], r.evs)
           ELSE IF left = Zero32
           THEN LET wrapped == Sub32(left, FromNat(1))
                IN  IF wrapped = Zero32
                    THEN ProbeReturns(ESP_LOADER_ERROR_TIMEOUT, Zero32, r.evs)
                    ELSE ProbeContinues("spi_read_w0", [spi EXCEPT !.trials = wrapped],
                                        r.evs)
           ELSE ProbeContinues("spi_poll", [spi EXCEPT !.trials = left], r.evs)
    /\ env' = e
    /\ UNCHANGED <<call, regOut, s_sequence_number, s_flash_write_size, s_target,
                   connectLocals, history>>

\* Line 253 and on: SPI_SET_PARAMS; an error ends the call.
FlashParams(e) ==
    /\ pc = "flash_params"
    /\ LET r == loader_spi_parameters(fs.flash_size, e)
       IN  IF r.err # ESP_LOADER_SUCCESS
           THEN /\ pc' = "idle"
                /\ ret' = r.err
                /\ events' = events \o r.evs
                /\ fs' = NoFs
                /\ UNCHANGED md5vars
           ELSE /\ pc' = "flash_begin"
                /\ ret' = ret
                /\ events' = events \o r.evs \o DeflDelay(fs, 20) \o before_begin(fs)
                /\ fs' = fs
                /\ s_start_address' = fs.offset
                /\ s_image_size' = fs.image_size
                /\ s_md5_context' = <<>>
                /\ md5_finalized' = FALSE
    /\ env' = e
    /\ UNCHANGED <<call, regOut, s_sequence_number, s_flash_write_size, s_target,
                   connectLocals, spi, history>>

\* Line 263 (299): the BEGIN command ends the call.
FlashBegin(e) ==
    /\ pc = "flash_begin"
    /\ LET encryption_in_cmd == encryption_in_begin_flash_cmd(s_target)
           r == IF fs.defl
                THEN loader_flash_defl_begin_cmd(fs.offset, fs.erase_size, fs.block_size,
                                                 fs.blocks_to_write, encryption_in_cmd, e)
                ELSE loader_flash_begin_cmd(fs.offset, fs.erase_size, fs.block_size,
                                            fs.blocks_to_write, encryption_in_cmd, e)
       IN  /\ events' = events \o r.evs
           /\ ret' = r.err
           /\ s_sequence_number' = r.value
           /\ streaming' = IF r.err # ESP_LOADER_SUCCESS THEN "none"
                           ELSE IF fs.defl THEN "defl" ELSE "raw"
    /\ pc' = "idle"
    /\ fs' = NoFs
    /\ env' = e
    /\ UNCHANGED <<call, regOut, s_flash_write_size, s_target, md5vars, connectLocals,
                   spi, seqLog, writes>>

(***************************************************************************)
(* Session manager: writing and finishing.                                 *)
(***************************************************************************)
\* (size + 3u) & ~3u
roundup4(size) == ((size + 3) \div 4) * 4

\* esp_loader_flash_write with its buffer written out: the payload's `size`
\* bytes, the rest of the block filled with PADDING_PATTERN.
Padded(payload, size, fws) ==
    SubSeq(payload, 1, size) \o [i \in 1..(fws - size) |-> PADDING_PATTERN]

\* esp_loader_flash_write sending the caller's bytes only.
esp_loader_flash_write_caller_size(payload, size, fws, seq, e) ==
    IF Gt32(FromNat(size), fws)
    THEN [err |-> ESP_LOADER_ERROR_INVALID_PARAM, evs |-> <<>>, md5 |-> <<>>, seq |-> seq,
          buf |-> payload]
    ELSE LET data == Padded(payload, size, ToNat(fws))
             r == loader_flash_data_cmd(data, size, seq, e)
         IN  [err |-> r.err, evs |-> <<EvTimer(FromNat(DEFAULT_TIMEOUT))>> \o r.evs,
              md5 |-> SubSeq(data, 1, roundup4(size)), seq |-> r.seq, buf |-> data]

\* esp_loader_flash_write taking a sequence number for a write it rejects.
esp_loader_flash_write_counts_rejected(payload, size, fws, seq, e) ==
    IF Gt32(FromNat(size), fws)
    THEN [err |-> ESP_LOADER_ERROR_INVALID_PARAM, evs |-> <<>>, md5 |-> <<>>,
          seq |-> seq + 1, buf |-> payload]
    ELSE LET data == Padded(payload, size, ToNat(fws))
             r == loader_flash_data_cmd(data, ToNat(fws), seq, e)
         IN  [err |-> r.err, evs |-> <<EvTimer(FromNat(DEFAULT_TIMEOUT))>> \o r.evs,
              md5 |-> SubSeq(data, 1, roundup4(size)), seq |-> r.seq, buf |-> data]

\* esp_loader_flash_write: `md5` is what md5_update is given, `seq` the
\* sequence counter before and after, `buf` the caller's buffer after the call
\* (the padding is written into it).
esp_loader_flash_write(payload, size, fws, seq, e) ==
    IF Gt32(FromNat(size), fws)
    THEN [err |-> ESP_LOADER_ERROR_INVALID_PARAM, evs |-> <<>>, md5 |-> <<>>, seq |-> seq,
          buf |-> payload]
    ELSE LET data == Padded(payload, size, ToNat(fws))
             r == loader_flash_data_cmd(data, ToNat(fws), seq, e)
         IN  [err |-> r.err, evs |-> <<EvTimer(FromNat(DEFAULT_TIMEOUT))>> \o r.evs,
              md5 |-> SubSeq(data, 1, roundup4(size)), seq |-> r.seq, buf |-> data]

\* esp_loader_flash_defl_write padding the block as the raw path does.
esp_loader_flash_defl_write_padded(buffer, size, fws, seq, e) ==
    IF Gt32(FromNat(size), fws)
    THEN [err |-> ESP_LOADER_ERROR_INVALID_PARAM, evs |-> <<>>, md5 |-> <<>>, seq |-> seq,
          buf |-> buffer]
    ELSE LET data == Padded(buffer, size, ToNat(fws))
             r == loader_flash_defl_data_cmd(data, ToNat(fws), seq, e)
         IN  [err |-> r.err, evs |-> <<EvTimer(FromNat(DEFAULT_TIMEOUT * 50))>> \o r.evs,
              md5 |-> SubSeq(buffer, 1, roundup4(size)), seq |-> r.seq, buf |-> data]

\* esp_loader_flash_defl_write: `buffer` is the caller's memory from payload
\* on, at least (size + 3) & ~3 bytes of it: md5_update reads that far, past
\* the `size` bytes of the chunk.
esp_loader_flash_defl_write(buffer, size, fws, seq, e) ==
    IF Gt32(FromNat(size), fws)
    THEN [err |-> ESP_LOADER_ERROR_INVALID_PARAM, evs |-> <<>>, md5 |-> <<>>, seq |-> seq,
          buf |-> buffer]
    ELSE LET r == loader_flash_defl_data_cmd(buffer, size, seq, e)
         IN  [err |-> r.err, evs |-> <<EvTimer(FromNat(DEFAULT_TIMEOUT * 50))>> \o r.evs,
              md5 |-> SubSeq(buffer, 1, roundup4(size)), seq |-> r.seq, buf |-> buffer]

esp_loader_flash_defl_finish(reboot, e) ==
    LET r == loader_flash_defl_end_cmd(~reboot, e)
    IN  [r EXCEPT !.evs = <<EvTimer(FromNat(DEFAULT_TIMEOUT))>> \o r.evs]

esp_loader_flash_finish(reboot, e) ==
    LET r == loader_flash_end_cmd(~reboot, e)
    IN  [r EXCEPT !.evs = <<EvTimer(FromNat(DEFAULT_TIMEOUT))>> \o r.evs]

\* The image the caller streams: byte p (from 1) of it.
ImageByte(p) == (p % 200) + 1

RECURSIVE SumSizes(_)
SumSizes(ws) ==
    IF ws = <<>> THEN 0
    ELSE (IF Head(ws).ret = ESP_LOADER_SUCCESS THEN Head(ws).size ELSE 0) + SumSizes(Tail(ws))

\* Bytes of the image the successful writes since the start have taken.
Written == SumSizes(writes)

\* The sequence numbers of the data frames in evs whose header went out.
SeqsOnWire(evs) ==
    LET sent == SelectSeq(evs, LAMBDA x : x.ev = "send" /\ x.parts >= 2)
    IN  [i \in 1..Len(sent) |-> sent[i].frame.payload.sequence_number]

\* The caller hands over the next `size` bytes of the image (a write that
\* failed is repeated with the same bytes).
FlashWrite(size, e) ==
    /\ pc = "idle"
    /\ LET payload == [i \in 1..size |-> ImageByte(Written + i)]
           r == esp_loader_flash_write(payload, size, s_flash_write_size,
                                       s_sequence_number, e)
       IN  /\ events' = r.evs
           /\ ret' = r.err
           /\ s_md5_context' = s_md5_context \o r.md5
           /\ s_sequence_number' = r.seq
           /\ seqLog' = seqLog \o SeqsOnWire(r.evs)
           /\ writes' = Append(writes, [size |-> size, ret |-> r.err])
    /\ call' = [fn |-> "esp_loader_flash_write", size |-> size,
                payload |-> [i \in 1..size |-> ImageByte(Written + i)],
                before |-> [i \in 1..size |-> ImageByte(Written + i)],
                buffer |-> esp_loader_flash_write(
                               [i \in 1..size |-> ImageByte(Written + i)], size,
                               s_flash_write_size, s_sequence_number, e).buf]
    /\ env' = e
    /\ UNCHANGED <<pc, regOut, s_flash_write_size, s_target, md5_finalized,
                   s_start_address, s_image_size, connectLocals, flashLocals, streaming>>

\* The caller hands over the next `size` bytes of the compressed stream; the
\* memory behind them holds `stale`.
FlashDeflWrite(size, stale, e) ==
    /\ pc = "idle"
    /\ LET buffer == [i \in 1..roundup4(size) |->
                         IF i <= size THEN ImageByte(Written + i) ELSE stale]
           r == esp_loader_flash_defl_write(buffer, size, s_flash_write_size,
                                            s_sequence_number, e)
       IN  /\ events' = r.evs
           /\ ret' = r.err
           /\ s_md5_context' = s_md5_context \o r.md5
           /\ s_sequence_number' = r.seq
           /\ seqLog' = seqLog \o SeqsOnWire(r.evs)
           /\ writes' = Append(writes, [size |-> size, ret |-> r.err])
           /\ call' = [fn |-> "esp_loader_flash_defl_write", size |-> size,
                       payload |-> SubSeq(buffer, 1, size), before |-> buffer,
                       buffer |-> r.buf]
    /\ env' = e
    /\ UNCHANGED <<pc, regOut, s_flash_write_size, s_target, md5_finalized,
                   s_start_address, s_image_size, connectLocals, flashLocals, streaming>>

FlashDeflFinish(reboot, e) ==
    /\ pc = "idle"
    /\ LET r == esp_loader_flash_defl_finish(reboot, e)
       IN  /\ events' = r.evs
           /\ ret' = r.err
    /\ call' = [fn |-> "esp_loader_flash_defl_finish", reboot |-> reboot]
    /\ env' = e
    /\ streaming' = "none"
    /\ UNCHANGED <<pc, regOut, session, connectLocals, flashLocals, seqLog, writes>>

FlashFinish(reboot, e) ==
    /\ pc = "idle"
    /\ LET r == esp_loader_flash_finish(reboot, e)
       IN  /\ events' = r.evs
           /\ ret' = r.err
    /\ call' = [fn |-> "esp_loader_flash_finish", reboot |-> reboot]
    /\ env' = e
    /\ streaming' = "none"
    /\ UNCHANGED <<pc, regOut, session, connectLocals, flashLocals, seqLog, writes>>

(***************************************************************************)
(* Environments and scenarios of the flash operations.                     *)
(***************************************************************************)
\* Most write calls of one streaming operation the model follows.
MaxWrites == 2

\* One exchange: the reply arrives with one of `values`, or nothing arrives
\* before the deadline.
ReplyOrTimeout(cmd, values) ==
    {Env(<<Response(READ_DIRECTION, cmd, v, 0, "")>>, 0, "") : v \in values}
    \cup {Env(<<>>, 0, "")}

\* The same, and a reply that reports failure.
ReplyEnvs(cmd) ==
    ReplyOrTimeout(cmd, {Zero32})
    \cup {Env(<<Response(READ_DIRECTION, cmd, Zero32, 1, "FLASH_WRITE_ERR")>>, 0, "")}

\* A data exchange may also fail while the frame is sent: at the opening
\* delimiter, before anything is on the wire.
DataEnvs == ReplyEnvs("FLASH_DATA") \cup {Env(<<>>, 1, ESP_LOADER_ERROR_TIMEOUT)}

\* What the saved USR / USR2 registers hold, and what the command register
\* reads while the flash command runs and when it is done.
UsrValues == {<<32768, 64>>}
CmdValues == {SPI_CMD_USR, Zero32}

\* JEDEC words in W0: capacity codes 0x17 (8 MiB), 0x12, 0x11 (below the
\* range), and 0x17 with bits set in the top byte.
FlashId8MiB == <<23, 16584>>
FlashIds == {FlashId8MiB, <<18, 16584>>, <<17, 16584>>, <<256 + 23, 16584>>}

ReadValues(step, ids) == IF step = "spi_read_w0" THEN ids ELSE UsrValues

\* The steps of a start call, the probe reading one of `ids`.
StepStart(ids) ==
    \/ \E e \in ReplyOrTimeout("READ_REG", ReadValues(pc, ids)) : SpiRead(e)
    \/ \E e \in ReplyOrTimeout("WRITE_REG", {Zero32}) : SpiWrite(e)
    \/ \E e \in ReplyOrTimeout("READ_REG", CmdValues) : SpiPoll(e)
    \/ \E e \in ReplyEnvs("SPI_SET_PARAMS") : FlashParams(e)
    \/ \E e \in ReplyEnvs(IF fs.defl THEN "FLASH_DEFL_BEGIN" ELSE "FLASH_BEGIN") :
            FlashBegin(e)

\* A caller connects with one trial until a target is known.
QuickConnect ==
    /\ s_target = ESP_UNKNOWN_CHIP
    /\ ConnectCall([sync_timeout |-> 100, trials |-> 1])

\* Streaming: small blocks, and writes of sizes that are not a multiple of 4,
\* a full block, or more than a block.  The caller goes on after a call that
\* returned success, and starts over only before it has written.
BlockSizes == {4, 8}
WriteSizes == {3, 5, 8}

UserFlashStart ==
    /\ ret = ESP_LOADER_SUCCESS
    /\ writes = <<>>
    /\ \E b \in BlockSizes : FlashStartCall(FALSE, Zero32, FromNat(8), Zero32, FromNat(b))

UserFlashWrite ==
    /\ streaming = "raw"
    /\ Len(writes) < MaxWrites
    /\ \E size \in WriteSizes, e \in DataEnvs : FlashWrite(size, e)

UserFlashFinish ==
    /\ streaming = "raw"
    /\ \E reboot \in BOOLEAN, e \in ReplyOrTimeout("FLASH_END", {Zero32}) :
           FlashFinish(reboot, e)

NextFlash ==
    \/ QuickConnect
    \/ StepConnect
    \/ UserFlashStart
    \/ StepStart({FlashId8MiB})
    \/ UserFlashWrite
    \/ UserFlashFinish

SpecFlash == Init /\ [][NextFlash]_vars

\* Starting: offsets and sizes over the whole 32-bit range.  <<defl, offset,
\* image_size, block_size>>: a small image; 9 MiB; an image ending exactly at
\* 8 MiB; one byte more; an offset at the top of the range; an image of
\* 2^32 - 1 bytes.
StartArgs ==
    {<<FALSE, Zero32, FromNat(1000), FromNat(1024)>>,
     <<TRUE, Zero32, FromNat(1000), FromNat(1024)>>,
     <<FALSE, Zero32, <<144, 0>>, FromNat(4096)>>,
     <<FALSE, FromNat(4096), <<127, 61440>>, FromNat(4096)>>,
     <<TRUE, FromNat(4097), <<127, 61440>>, FromNat(4096)>>,
     <<FALSE, <<65535, 65535>>, FromNat(2), FromNat(1024)>>,
     <<TRUE, <<65535, 65535>>, FromNat(2), FromNat(1024)>>,
     <<FALSE, Zero32, <<65535, 65535>>, FromNat(1024)>>}

\* The first start of a session, after a connect that returned success; a
\* deflated image is compressed to 100 bytes.
FirstFlashStart ==
    /\ ret = ESP_LOADER_SUCCESS
    /\ s_flash_write_size = Zero32
    /\ \E a \in StartArgs : FlashStartCall(a[1], a[2], a[3], FromNat(100), a[4])

NextStart ==
    \/ QuickConnect
    \/ StepConnect
    \/ FirstFlashStart
    \/ StepStart(FlashIds)

SpecStart == Init /\ [][NextStart]_vars

(***************************************************************************)
(* Transmission rate and verification.                                     *)
(***************************************************************************)
ESP_LOADER_ERROR_INVALID_MD5 == "INVALID_MD5"
MD5_TIMEOUT_PER_MB == 8000

loader_change_baudrate_cmd(baudrate, e) ==
    send_cmd(Command("CHANGE_BAUDRATE", 8, 0,
                     [new_baudrate |-> baudrate, old_baudrate |-> Zero32]), e)

\* esp_loader_change_transmission_rate without the test for the ESP8266.
esp_loader_change_transmission_rate_any_target(target, transmission_rate, e) ==
    LET r == loader_change_baudrate_cmd(transmission_rate, e)
    IN  [err |-> r.err, evs |-> <<EvTimer(FromNat(DEFAULT_TIMEOUT))>> \o r.evs]

esp_loader_change_transmission_rate(target, transmission_rate, e) ==
    IF target = ESP8266_CHIP
    THEN [err |-> ESP_LOADER_ERROR_UNSUPPORTED_FUNC, evs |-> <<>>]
    ELSE LET r == loader_change_baudrate_cmd(transmission_rate, e)
         IN  [err |-> r.err, evs |-> <<EvTimer(FromNat(DEFAULT_TIMEOUT))>> \o r.evs]

\* The digest library (MD5Final): a two-byte stand-in that depends on every
\* byte of the input and on its length.
md5_final(ctx) == <<XorFold(0, ctx), Len(ctx) % 256>>

dec_to_hex == <<"0", "1", "2", "3", "4", "5", "6", "7",
                "8", "9", "a", "b", "c", "d", "e", "f">>

\* hexify: two characters for every byte, the high nibble first.
hexify(raw_md5) ==
    [i \in 1..(2 * Len(raw_md5)) |->
        LET b == raw_md5[(i + 1) \div 2]
        IN  dec_to_hex[(IF i % 2 = 1 THEN b \div 16 ELSE b % 16) + 1]]

\* rom_md5_response_t: a response frame with the digest in hex before the
\* status tail.
Md5Response(md5, failed, error) ==
    [direction |-> READ_DIRECTION, command |-> "SPI_FLASH_MD5", value |-> Zero32,
     failed |-> failed, error |-> error, md5 |-> md5]

\* send_cmd_md5: delimiter, frame, delimiter, one reply; md5_out is written
\* only when the reply was good.
send_cmd_md5(cmd, e) ==
    LET parts == IF e.fail = 0 THEN 3 ELSE e.fail - 1
        sent == IF parts = 0 THEN <<>> ELSE <<EvSend(cmd, <<>>, parts)>>
        r == check_response(cmd.command, e.rx)
    IN  IF e.fail # 0
        THEN [err |-> e.failErr, evs |-> sent, written |-> FALSE, md5 |-> <<>>]
        ELSE IF r.err # ESP_LOADER_SUCCESS
        THEN [err |-> r.err, evs |-> sent \o r.log, written |-> FALSE, md5 |-> <<>>]
        ELSE [err |-> ESP_LOADER_SUCCESS, evs |-> sent, written |-> TRUE,
              md5 |-> e.rx[Len(e.rx) - Len(r.rest)].md5]

loader_md5_cmd(address, size, e) ==
    send_cmd_md5(Command("SPI_FLASH_MD5", 16, 0,
                         [address |-> address, size |-> size,
                          reserved_0 |-> Zero32, reserved_1 |-> Zero32]), e)

\* esp_loader_flash_verify; `finalized` says whether md5_final ran.
esp_loader_flash_verify(target, ctx, start_address, image_size, e) ==
    IF target = ESP8266_CHIP
    THEN [err |-> ESP_LOADER_ERROR_UNSUPPORTED_FUNC, evs |-> <<>>, finalized |-> FALSE]
    ELSE LET hex_md5 == hexify(md5_final(ctx))
             timer == <<EvTimer(timeout_per_mb(image_size, MD5_TIMEOUT_PER_MB))>>
             r == loader_md5_cmd(start_address, image_size, e)
         IN  IF r.err # ESP_LOADER_SUCCESS
             THEN [err |-> r.err, evs |-> timer \o r.evs, finalized |-> TRUE]
             ELSE IF r.md5 # hex_md5
             THEN [err |-> ESP_LOADER_ERROR_INVALID_MD5,
                   evs |-> timer \o r.evs
                           \o <<EvPrint("Error: MD5 checksum does not match:\n"),
                                EvPrint("Expected:\n"),
                                EvPrint(r.md5 \o <<"\n">>),
                                EvPrint("Actual:\n"),
                                EvPrint(hex_md5 \o <<"\n">>)>>,
                   finalized |-> TRUE]
             ELSE [err |-> ESP_LOADER_SUCCESS, evs |-> timer \o r.evs, finalized |-> TRUE]

ChangeTransmissionRate(transmission_rate, e) ==
    /\ pc = "idle"
    /\ LET r == esp_loader_change_transmission_rate(s_target, transmission_rate, e)
       IN  /\ events' = r.evs
           /\ ret' = r.err
    /\ call' = [fn |-> "esp_loader_change_transmission_rate",
                transmission_rate |-> transmission_rate]
    /\ env' = e
    /\ UNCHANGED <<pc, regOut, session, connectLocals, flashLocals, history>>

FlashVerify(e) ==
    /\ pc = "idle"
    /\ LET r == esp_loader_flash_verify(s_target, s_md5_context, s_start_address,
                                        s_image_size, e)
       IN  /\ events' = r.evs
           /\ ret' = r.err
           /\ md5_finalized' = (md5_finalized \/ r.finalized)
    /\ call' = [fn |-> "esp_loader_flash_verify"]
    /\ env' = e
    /\ UNCHANGED <<pc, regOut, s_sequence_number, s_flash_write_size, s_target,
                   s_md5_context, s_start_address, s_image_size, connectLocals,
                   flashLocals, history>>

\* What the target answers to SPI_FLASH_MD5 when the core expects `expected`:
\* that digest, another one, a failure, nothing; or the request is not sent.
Md5Envs(expected) ==
    {Env(<<Md5Response(expected, 0, "")>>, 0, ""),
     Env(<<Md5Response(hexify(<<0, 0>>), 0, "")>>, 0, ""),
     Env(<<Md5Response(hexify(<<0, 0>>), 1, "INVALID_CRC")>>, 0, ""),
     Env(<<>>, 0, ""),
     Env(<<>>, 1, ESP_LOADER_ERROR_TIMEOUT)}

BaudRates == {FromNat(115200), FromNat(921600)}
FinishCalls == {"esp_loader_flash_finish", "esp_loader_flash_defl_finish"}

(***************************************************************************)
(* Download to RAM.                                                        *)
(***************************************************************************)
LOAD_RAM_TIMEOUT_PER_MB == 2000000

ROUNDUP(a, b) == Div32(Sub32(Add32(a, b), FromNat(1)), b)

loader_mem_begin_cmd(offset, size, blocks_to_write, block_size, e) ==
    [send_cmd(Command("MEM_BEGIN", 16, 0,
                      [total_size |-> size, blocks |-> blocks_to_write,
                       block_size |-> block_size, offset |-> offset]), e)
     EXCEPT !.value = 0]

loader_mem_data_cmd(data, size, seq, e) ==
    LET r == send_cmd_with_data(
                 Command("MEM_DATA", 16 + size, compute_checksum(data, size),
                         [data_size |-> size, sequence_number |-> seq,
                          zero_0 |-> 0, zero_1 |-> 0]),
                 SubSeq(data, 1, size), e)
    IN  [err |-> r.err, evs |-> r.evs, seq |-> seq + 1]

loader_mem_end_cmd(entrypoint, e) ==
    send_cmd(Command("MEM_END", 8, 0,
                     [stay_in_loader |-> (entrypoint = Zero32),
                      entry_point_address |-> entrypoint]), e)

esp_loader_mem_start(offset, size, block_size, e) ==
    LET blocks_to_write == ROUNDUP(size, block_size)
        r == loader_mem_begin_cmd(offset, size, blocks_to_write, block_size, e)
    IN  [err |-> r.err, seq |-> r.value,
         evs |-> <<EvTimer(timeout_per_mb(size, LOAD_RAM_TIMEOUT_PER_MB))>> \o r.evs]

esp_loader_mem_write(payload, size, seq, e) ==
    LET r == loader_mem_data_cmd(payload, size, seq, e)
    IN  [err |-> r.err, seq |-> r.seq,
         evs |-> <<EvTimer(timeout_per_mb(FromNat(size), LOAD_RAM_TIMEOUT_PER_MB))>>
                 \o r.evs]

esp_loader_mem_finish(entrypoint, e) ==
    LET r == loader_mem_end_cmd(entrypoint, e)
    IN  [err |-> r.err, evs |-> <<EvTimer(FromNat(DEFAULT_TIMEOUT))>> \o r.evs]

MemStart(offset, size, block_size, e) ==
    /\ pc = "idle"
    /\ LET r == esp_loader_mem_start(offset, size, block_size, e)
       IN  /\ events' = r.evs
           /\ ret' = r.err
           /\ s_sequence_number' = r.seq
           /\ streaming' = IF r.err = ESP_LOADER_SUCCESS THEN "mem" ELSE "none"
    /\ call' = [fn |-> "esp_loader_mem_start", offset |-> offset, size |-> size,
                block_size |-> block_size]
    /\ env' = e
    /\ seqLog' = <<>>
    /\ writes' = <<>>
    /\ UNCHANGED <<pc, regOut, s_flash_write_size, s_target, md5vars, connectLocals,
                   flashLocals>>

MemWrite(size, e) ==
    /\ pc = "idle"
    /\ LET payload == [i \in 1..size |-> ImageByte(Written + i)]
           r == esp_loader_mem_write(payload, size, s_sequence_number, e)
       IN  /\ events' = r.evs
           /\ ret' = r.err
           /\ s_sequence_number' = r.seq
           /\ seqLog' = seqLog \o SeqsOnWire(r.evs)
           /\ writes' = Append(writes, [size |-> size, ret |-> r.err])
           /\ call' = [fn |-> "esp_loader_mem_write", size |-> size, payload |-> payload]
    /\ env' = e
    /\ UNCHANGED <<pc, regOut, s_flash_write_size, s_target, md5vars, connectLocals,
                   flashLocals, streaming>>

MemFinish(entrypoint, e) ==
    /\ pc = "idle"
    /\ LET r == esp_loader_mem_finish(entrypoint, e)
       IN  /\ events' = r.evs
           /\ ret' = r.err
    /\ call' = [fn |-> "esp_loader_mem_finish", entrypoint |-> entrypoint]
    /\ env' = e
    /\ streaming' = "none"
    /\ UNCHANGED <<pc, regOut, session, connectLocals, flashLocals, seqLog, writes>>

\* A RAM address, and the sizes of the chunks downloaded to it.
RamAddress == <<16392, 0>>
MemWriteSizes == {0, 3}

UserMemStart ==
    /\ call.fn = "esp_loader_connect"
    /\ ret = ESP_LOADER_SUCCESS
    /\ \E e \in ReplyOrTimeout("MEM_BEGIN", {Zero32}) :
           MemStart(RamAddress, FromNat(6), FromNat(4), e)

UserMemWrite ==
    /\ streaming = "mem"
    /\ Len(writes) < MaxWrites
    /\ \E size \in MemWriteSizes, e \in ReplyOrTimeout("MEM_DATA", {Zero32}) :
           MemWrite(size, e)

UserMemFinish ==
    /\ streaming = "mem"
    /\ \E entrypoint \in {Zero32, RamAddress}, e \in ReplyOrTimeout("MEM_END", {Zero32}) :
           MemFinish(entrypoint, e)

\* A chunk that, with its 16-byte data header, no longer fits the size field.
BigChunk == SizeFieldModulus - 16

\* The caller downloads one such chunk first.
BigMemWrite ==
    /\ streaming = "mem"
    /\ writes = <<>>
    /\ MemWrite(BigChunk, Env(<<Response(READ_DIRECTION, "MEM_DATA", Zero32, 0, "")>>, 0, ""))

NextMem ==
    \/ QuickConnect
    \/ StepConnect
    \/ UserMemStart
    \/ UserMemWrite
    \/ BigMemWrite
    \/ UserMemFinish

SpecMem == Init /\ [][NextMem]_vars

\* The whole API around a raw or a compressed streaming operation.
DataEnvsOf(cmd) == ReplyEnvs(cmd) \cup {Env(<<>>, 1, ESP_LOADER_ERROR_TIMEOUT)}

\* What the caller's memory holds behind a compressed chunk.
StaleBytes == {0, 238}
DeflWriteSizes == {0, 3, 5}

ApiFlashStart ==
    /\ call.fn = "esp_loader_connect"
    /\ ret = ESP_LOADER_SUCCESS
    /\ writes = <<>>
    /\ \E defl \in BOOLEAN, b \in BlockSizes :
           FlashStartCall(defl, Zero32, FromNat(8), FromNat(6), FromNat(b))

ApiFlashWrite ==
    /\ streaming = "raw"
    /\ Len(writes) < MaxWrites
    /\ \E size \in WriteSizes, e \in ReplyOrTimeout("FLASH_DATA", {Zero32}) :
           FlashWrite(size, e)

UserFlashDeflWrite ==
    /\ streaming = "defl"
    /\ Len(writes) < MaxWrites
    /\ \E size \in DeflWriteSizes, stale \in StaleBytes,
          e \in ReplyOrTimeout("FLASH_DEFL_DATA", {Zero32}) :
           FlashDeflWrite(size, stale, e)

UserFlashDeflFinish ==
    /\ streaming = "defl"
    /\ \E reboot \in BOOLEAN, e \in ReplyOrTimeout("FLASH_DEFL_END", {Zero32}) :
           FlashDeflFinish(reboot, e)

\* The caller changes the rate right after a connect, and verifies right after
\* a finish.
UserChangeRate ==
    /\ call.fn = "esp_loader_connect"
    /\ ret = ESP_LOADER_SUCCESS
    /\ \E rate \in BaudRates, e \in DataEnvsOf("CHANGE_BAUDRATE") :
           ChangeTransmissionRate(rate, e)

UserVerify ==
    /\ call.fn \in FinishCalls
    /\ ret = ESP_LOADER_SUCCESS
    /\ \E e \in Md5Envs(hexify(md5_final(s_md5_context))) : FlashVerify(e)

NextApi ==
    \/ QuickConnect
    \/ StepConnect
    \/ ApiFlashStart
    \/ StepStart({FlashId8MiB})
    \/ ApiFlashWrite
    \/ UserFlashFinish
    \/ UserFlashDeflWrite
    \/ UserFlashDeflFinish
    \/ UserChangeRate
    \/ UserVerify
    \/ UserMemStart
    \/ UserMemWrite
    \/ UserMemFinish

SpecApi == Init /\ [][NextApi]_vars


(***************************************************************************)
(* Properties.                                                             *)
(***************************************************************************)
IsPrint(e) == e.ev = "debug_print"
IsSend(e) == e.ev = "send"
IsTimer(e) == e.ev = "start_timer"
IsDelay(e) == e.ev = "delay_ms"

Prints == SelectSeq(events, IsPrint)
Sends == SelectSeq(events, IsSend)

\* The place in rx of the first frame with the read direction and the command
\* cmd; 0 when rx holds none.
FirstMatch(rx, cmd) ==
    LET M == {i \in 1..Len(rx) : rx[i].direction = READ_DIRECTION /\ rx[i].command = cmd}
    IN  IF M = {} THEN 0 ELSE CHOOSE i \in M : \A j \in M : i <= j

RegisterCalls == {"esp_loader_read_register", "esp_loader_write_register"}
RegisterOp == IF call.fn = "esp_loader_read_register" THEN "READ_REG" ELSE "WRITE_REG"

\* C5: the reply to an outstanding request is the first incoming frame with
\* direction 0x01 and the request's op.  Frames before it (wrong direction or
\* wrong op, whatever their status tail says) log nothing and do not change the
\* result; the result is that frame's value, or INVALID_RESPONSE when its status
\* says failed; with no such frame before the deadline the result is TIMEOUT.
C5_FirstMatchingReply ==
    (pc = "idle" /\ call.fn \in RegisterCalls /\ env.fail = 0) =>
        LET i == FirstMatch(env.rx, RegisterOp)
        IN  IF i = 0
            THEN ret = ESP_LOADER_ERROR_TIMEOUT /\ Prints = <<>>
            ELSE IF env.rx[i].failed = 0
            THEN /\ ret = ESP_LOADER_SUCCESS
                 /\ Prints = <<>>
                 /\ call.fn = "esp_loader_read_register" => regOut = env.rx[i].value
            ELSE /\ ret = ESP_LOADER_ERROR_INVALID_RESPONSE
                 /\ Len(Prints) = 3

\* A read whose reply came second, behind a frame with the request direction
\* and a failed status that was dropped.
C5_Witness ==
    /\ pc = "idle"
    /\ call.fn = "esp_loader_read_register"
    /\ env.fail = 0
    /\ Len(env.rx) = 2
    /\ env.rx[1].direction = WRITE_DIRECTION
    /\ env.rx[1].failed = 1
    /\ FirstMatch(env.rx, "READ_REG") = 2
    /\ ret = ESP_LOADER_SUCCESS
    /\ regOut = env.rx[2].value
    /\ regOut # env.rx[1].value

\* C6: when the matching response has failed # 0 the exchange returns
\* INVALID_RESPONSE for every error byte, the debug sink gets "Error: ", the
\* name of the error ("UNKNOWN ERROR" for a byte outside the table) and a line
\* end, and the caller's register word keeps the value it had before the call;
\* when failed = 0 the exchange returns success and the caller's word is the
\* frame's value.
C6_FailedReply ==
    [][(/\ pc = "idle"
        /\ pc' = "idle"
        /\ call'.fn = "esp_loader_read_register"
        /\ env'.fail = 0
        /\ FirstMatch(env'.rx, "READ_REG") # 0)
       => LET f == env'.rx[FirstMatch(env'.rx, "READ_REG")]
          IN  IF f.failed # 0
              THEN /\ ret' = ESP_LOADER_ERROR_INVALID_RESPONSE
                   /\ regOut' = regOut
                   /\ Prints' = <<EvPrint("Error: "),
                                  EvPrint(IF f.error = UnknownError THEN "UNKNOWN ERROR"
                                                                    ELSE f.error),
                                  EvPrint("\n")>>
              ELSE /\ ret' = ESP_LOADER_SUCCESS
                   /\ regOut' = f.value
                   /\ Prints' = <<>>]_vars

\* A failed reply with an error byte outside the table, after an earlier read
\* had delivered a value: the value is still there.
C6_Witness ==
    /\ pc = "idle"
    /\ call.fn = "esp_loader_read_register"
    /\ env.fail = 0
    /\ FirstMatch(env.rx, "READ_REG") # 0
    /\ env.rx[FirstMatch(env.rx, "READ_REG")].failed # 0
    /\ env.rx[FirstMatch(env.rx, "READ_REG")].error = UnknownError
    /\ ret = ESP_LOADER_ERROR_INVALID_RESPONSE
    /\ regOut \in RespValues
    /\ Len(Prints) = 3
    /\ Prints[2].str = "UNKNOWN ERROR"


\* The SYNC frames of the current connect whose header went out.
SyncFrames ==
    SelectSeq(events, LAMBDA x : x.ev = "send" /\ x.frame.command = "SYNC" /\ x.parts >= 2)

\* The last exchange was a SYNC probe answered by k good replies and nothing
\* else before the deadline.
OnlySyncReplies(e, k) ==
    /\ e.fail = 0
    /\ Len(e.rx) = k
    /\ \A i \in 1..Len(e.rx) : e.rx[i] = SyncOk

\* C2 as stated: with k good replies, 1 <= k < 8, and the deadline lapsing while
\* the rest is awaited, the SYNC command returns success.
C2_SuccessAfterOneReply ==
    \A k \in 1..7 : OnlySyncReplies(env, k) => err = ESP_LOADER_SUCCESS

\* C2, amended: the SYNC command returns success only when all 8 replies were
\* parsed; with k good replies, 1 <= k < 8, and the deadline lapsing while the
\* rest is awaited, it returns TIMEOUT.
C2_AllEightReplies ==
    \A k \in 1..MaxSyncReplies :
        OnlySyncReplies(env, k) =>
            err = (IF k < 8 THEN ESP_LOADER_ERROR_TIMEOUT ELSE ESP_LOADER_SUCCESS)

\* Seven good replies, then the deadline: the attempt timed out.
C2_Witness ==
    /\ OnlySyncReplies(env, 7)
    /\ call.fn = "esp_loader_connect"
    /\ err = ESP_LOADER_ERROR_TIMEOUT

\* C3 as stated: for every trial budget, 0 and negative ones included, connect
\* emits at most `trials` SYNC frames (none for a budget of 0 or less).
C3_AtMostTrialsSyncFrames ==
    call.fn = "esp_loader_connect" =>
        Len(SyncFrames) <= (IF call.trials > 0 THEN call.trials ELSE 0)

\* C4: a SYNC attempt that ends with an error other than TIMEOUT ends connect:
\* the error is returned, the attempt adds its timer arming and its SYNC frame
\* (with the log of the failed reply) and nothing else - no delay, no further
\* SYNC - and neither chip detection nor FLASH_BEGIN / SPI_ATTACH follow.
C4_OtherErrorAborts ==
    [][(/\ pc = "connect_sync"
        /\ err' \notin {ESP_LOADER_SUCCESS, ESP_LOADER_ERROR_TIMEOUT})
       => LET added == SubSeq(events', Len(events) + 1, Len(events'))
          IN  /\ pc' = "idle"
              /\ ret' = err'
              /\ Len(events') > Len(events)
              /\ SubSeq(events', 1, Len(events)) = events
              /\ added[1] = EvTimer(FromNat(call.sync_timeout))
              /\ \A i \in 2..Len(added) : added[i].ev \in {"send", "debug_print"}
              /\ Len(SelectSeq(added, IsSend)) <= 1
              /\ \A i \in 1..Len(events') :
                    events'[i].ev \in {"enter_bootloader", "start_timer", "delay_ms",
                                       "send", "debug_print"}
              /\ \A i \in 1..Len(events') :
                    events'[i].ev = "send" => events'[i].frame.command = "SYNC"
              /\ Len(SelectSeq(events', IsDelay)) = Len(SelectSeq(events, IsDelay))
              /\ s_target' = s_target]_vars

\* A failed reply on the second of three allowed attempts: connect is over,
\* with two trials left unused.
C4_Witness ==
    /\ pc = "idle"
    /\ call.fn = "esp_loader_connect"
    /\ call.trials = 3
    /\ trials = 2
    /\ ret = ESP_LOADER_ERROR_INVALID_RESPONSE
    /\ Len(SyncFrames) = 2
    /\ Len(SelectSeq(events, IsDelay)) = 1


\* The data frames of the current call, and the BEGIN frames of a start call.
DataFrames ==
    SelectSeq(events, LAMBDA x : x.ev = "send" /\ x.frame.command = "FLASH_DATA")
BeginFrames ==
    SelectSeq(events, LAMBDA x : x.ev = "send"
                                 /\ x.frame.command \in {"FLASH_BEGIN", "FLASH_DEFL_BEGIN"})

\* C1 as stated: within a streaming operation the sequence numbers of the data
\* packets put on the wire are 0, 1, 2, ... with no gap and no repeat, whatever
\* the write calls were: rejected with INVALID_PARAM, or failed (send error,
\* TIMEOUT, INVALID_RESPONSE) and repeated.
C1_SequenceNumbersNoGap ==
    streaming # "none" => seqLog = [i \in 1..Len(seqLog) |-> i - 1]

\* offset + image_size <= flash_size, the sum taken in the integers: its carry
\* out of 32 bits and its low word.
FitsExactly(offset, image_size, flash_size) ==
    LET lo == image_size[2] + offset[2]
        hi == image_size[1] + offset[1] + (lo \div Half)
    IN  ~(hi >= Half \/ Gt32(<<hi % Half, lo % Half>>, flash_size))

\* C7 as stated: after a probe that succeeded, a start call goes on to
\* SPI_SET_PARAMS and the BEGIN command only when offset + image_size, as
\* integers, is at most the probed flash size (a sum that wraps around 32 bits
\* is too large); and a start call that returned IMAGE_SIZE has sent neither.
C7_ImageSizeExact ==
    call.fn \in StartCalls =>
        /\ (pc \in {"flash_params", "flash_begin"} /\ fs.flash_size # Zero32) =>
               FitsExactly(call.offset, call.image_size, fs.flash_size)
        /\ (pc = "idle" /\ ret = ESP_LOADER_ERROR_IMAGE_SIZE) =>
               \A i \in 1..Len(Sends) :
                   Sends[i].frame.command \notin {"SPI_SET_PARAMS", "FLASH_BEGIN",
                                                    "FLASH_DEFL_BEGIN"}

\* C8 as stated: the erase size in the BEGIN command of a start call is at
\* least image_size, for every 32-bit image_size and block_size > 0, and is
\* block_size * ceil(image_size / block_size).
C8_EraseSizeCoversImage ==
    call.fn \in StartCalls =>
        \A i \in 1..Len(BeginFrames) :
            LET erase == BeginFrames[i].frame.payload.erase_size
                is == ToNat(call.image_size)
                bs == ToNat(call.block_size)
            IN  /\ ~Lt32(erase, call.image_size)
                /\ call.image_size[1] < 2^14 =>
                       erase = FromNat(bs * ((is + bs - 1) \div bs))

\* The image as far as the successful writes have handed it over.
Image == [i \in 1..Written |-> ImageByte(i)]
AllWritesSucceeded == \A i \in 1..Len(writes) : writes[i].ret = ESP_LOADER_SUCCESS

\* C9 as stated: after a start and successful raw writes, the bytes given to
\* the MD5 accumulator are the bytes of the image (the concatenation of the
\* payloads) padded to a multiple of 4, however the image was cut into chunks.
C9_Md5InputIsPaddedImage ==
    (streaming = "raw" /\ AllWritesSucceeded) =>
        /\ Len(s_md5_context) = roundup4(Written)
        /\ SubSeq(s_md5_context, 1, Written) = Image

DeflDataFrames ==
    SelectSeq(events, LAMBDA x : x.ev = "send" /\ x.frame.command = "FLASH_DEFL_DATA")

\* C11: every FLASH_DATA frame carries exactly flash_write_size data bytes,
\* the caller's s bytes unchanged and then flash_write_size - s bytes 0xFF, and
\* every FLASH_DEFL_DATA frame carries exactly the caller's s bytes, unpadded.
\* The raw write is the only call that emits FLASH_DATA, the compressed write
\* the only one that emits FLASH_DEFL_DATA.
C11_DataBytesOnWire ==
    /\ DataFrames # <<>> => call.fn = "esp_loader_flash_write"
    /\ DeflDataFrames # <<>> => call.fn = "esp_loader_flash_defl_write"
    /\ \A i \in 1..Len(DataFrames) :
           LET d == DataFrames[i].data
           IN  /\ FromNat(Len(d)) = s_flash_write_size
               /\ SubSeq(d, 1, call.size) = call.payload
               /\ \A j \in (call.size + 1)..Len(d) : d[j] = 255
    /\ \A i \in 1..Len(DeflDataFrames) :
           /\ DeflDataFrames[i].data = call.payload
           /\ Len(DeflDataFrames[i].data) = call.size

\* A compressed chunk of 3 bytes went out whole into a block of 8, unpadded.
C11_Witness ==
    /\ call.fn = "esp_loader_flash_defl_write"
    /\ call.size = 3
    /\ s_flash_write_size = FromNat(8)
    /\ Len(DeflDataFrames) = 1
    /\ DeflDataFrames[1].parts = 4
    /\ Len(DeflDataFrames[1].data) = 3

WriteCalls == {"esp_loader_flash_write", "esp_loader_flash_defl_write"}
AllDataFrames(evs) ==
    SelectSeq(evs, LAMBDA x : x.ev = "send"
                              /\ x.frame.command \in {"FLASH_DATA", "FLASH_DEFL_DATA"})

\* C12: a raw or compressed write with size > flash_write_size returns
\* INVALID_PARAM and does nothing else: no port call (nothing sent, no deadline
\* armed), the caller's buffer as it was, the MD5 accumulator, the sequence
\* number and the block size unchanged; and no data packet of any write
\* carries more than flash_write_size bytes.
C12_OversizedWriteRejected ==
    [][(pc = "idle" /\ pc' = "idle" /\ call'.fn \in WriteCalls) =>
           /\ Gt32(FromNat(call'.size), s_flash_write_size) =>
                  /\ ret' = ESP_LOADER_ERROR_INVALID_PARAM
                  /\ events' = <<>>
                  /\ call'.buffer = call'.before
                  /\ s_md5_context' = s_md5_context
                  /\ md5_finalized' = md5_finalized
                  /\ s_sequence_number' = s_sequence_number
                  /\ s_flash_write_size' = s_flash_write_size
                  /\ seqLog' = seqLog
           /\ \A i \in 1..Len(AllDataFrames(events')) :
                  ~Gt32(FromNat(Len(AllDataFrames(events')[i].data)), s_flash_write_size)]_vars

\* A raw write of 5 bytes was refused in an operation with blocks of 4, after
\* a write that had been accepted.
C12_Witness ==
    /\ call.fn = "esp_loader_flash_write"
    /\ call.size = 5
    /\ s_flash_write_size = FromNat(4)
    /\ ret = ESP_LOADER_ERROR_INVALID_PARAM
    /\ events = <<>>
    /\ s_sequence_number = 1
    /\ s_md5_context # <<>>

\* C13 as stated: a BEGIN frame (FLASH_BEGIN or FLASH_DEFL_BEGIN) carries the
\* trailing `encrypted` word, a payload of 20 bytes, exactly when
\* encryption_in_begin_flash_cmd(target) is true, and omits it, a payload of
\* 16 bytes, when it is false.
C13_EncryptedWordWhenCapable ==
    \A i \in 1..Len(BeginFrames) :
        LET f == BeginFrames[i].frame
        IN  (call.fn \in StartCalls) =>
               /\ ("encrypted" \in DOMAIN f.payload) <=> encryption_in_begin_flash_cmd(s_target)
               /\ f.size = (IF encryption_in_begin_flash_cmd(s_target) THEN 20 ELSE 16)

\* C14: on the ESP8266 esp_loader_change_transmission_rate and
\* esp_loader_flash_verify return UNSUPPORTED_FUNC and do nothing else: no
\* frame, no deadline armed, no state changed (the MD5 accumulator is not
\* finalized).  On every other target the rate change arms one deadline and
\* emits one CHANGE_BAUDRATE request with new_baudrate = the rate asked for
\* and old_baudrate = 0 (nothing is on the wire only when the port refuses the
\* opening delimiter).
C14_Esp8266Unsupported ==
    [][(pc = "idle"
        /\ call'.fn \in {"esp_loader_change_transmission_rate", "esp_loader_flash_verify"}) =>
           /\ (s_target = ESP8266_CHIP) =>
                  /\ ret' = ESP_LOADER_ERROR_UNSUPPORTED_FUNC
                  /\ events' = <<>>
                  /\ session' = session
                  /\ history' = history
                  /\ pc' = pc
           /\ (s_target # ESP8266_CHIP /\ call'.fn = "esp_loader_change_transmission_rate") =>
                  LET s == SelectSeq(events', IsSend)
                  IN  /\ events'[1] = EvTimer(FromNat(DEFAULT_TIMEOUT))
                      /\ Len(SelectSeq(events', IsTimer)) = 1
                      /\ Len(s) = (IF env'.fail = 1 THEN 0 ELSE 1)
                      /\ \A i \in 1..Len(s) :
                             /\ s[i].frame.command = "CHANGE_BAUDRATE"
                             /\ s[i].frame.payload.new_baudrate = call'.transmission_rate
                             /\ s[i].frame.payload.old_baudrate = Zero32
                             /\ s[i].parts = 3]_vars

\* An ESP8266 refused to verify an image whose digest is pending.
C14_Witness ==
    /\ call.fn = "esp_loader_flash_verify"
    /\ s_target = ESP8266_CHIP
    /\ ret = ESP_LOADER_ERROR_UNSUPPORTED_FUNC
    /\ events = <<>>
    /\ s_md5_context # <<>>
    /\ ~md5_finalized

ConnectBegins == SelectSeq(Sends, LAMBDA x : x.frame.command = "FLASH_BEGIN")
ConnectAttaches == SelectSeq(Sends, LAMBDA x : x.frame.command = "SPI_ATTACH")
Detections == SelectSeq(events, LAMBDA x : x.ev = "loader_detect_chip")
PinConfigs == SelectSeq(events, LAMBDA x : x.ev = "loader_read_spi_config")

\* C15: when esp_loader_connect has returned: after a detection that found an
\* ESP8266, one FLASH_BEGIN with erase_size, packet_count, packet_size and
\* offset 0 was sent and no SPI_ATTACH (and the pin configuration was not
\* read); after a detection that found another target, one SPI_ATTACH with
\* the word the pin-configuration collaborator returned and a zero word was
\* sent and no FLASH_BEGIN; when the detection or the pin-configuration read
\* failed, connect returned that error and sent neither.  (A frame is missing
\* only when the port refused its opening delimiter.)
C15_ConnectConfiguresSpi ==
    (pc = "idle" /\ call.fn = "esp_loader_connect") =>
        LET one == IF env.fail = 1 THEN 0 ELSE 1
        IN  /\ Len(Detections) <= 1
            /\ Detections = <<>> => ConnectBegins = <<>> /\ ConnectAttaches = <<>>
            /\ \A i \in 1..Len(Detections) :
                   LET d == Detections[i]
                   IN  /\ d.err # ESP_LOADER_SUCCESS =>
                              /\ ret = d.err
                              /\ ConnectBegins = <<>> /\ ConnectAttaches = <<>>
                              /\ PinConfigs = <<>>
                       /\ (d.err = ESP_LOADER_SUCCESS /\ d.target = ESP8266_CHIP) =>
                              /\ ConnectAttaches = <<>> /\ PinConfigs = <<>>
                              /\ Len(ConnectBegins) = one
                              /\ \A j \in 1..Len(ConnectBegins) :
                                     LET w == ConnectBegins[j].frame.payload
                                     IN  /\ w.erase_size = Zero32 /\ w.packet_count = Zero32
                                         /\ w.packet_size = Zero32 /\ w.offset = Zero32
                       /\ (d.err = ESP_LOADER_SUCCESS /\ d.target # ESP8266_CHIP) =>
                              /\ ConnectBegins = <<>>
                              /\ Len(PinConfigs) = 1
                              /\ PinConfigs[1].err # ESP_LOADER_SUCCESS =>
                                     ret = PinConfigs[1].err /\ ConnectAttaches = <<>>
                              /\ PinConfigs[1].err = ESP_LOADER_SUCCESS =>
                                     /\ Len(ConnectAttaches) = one
                                     /\ \A j \in 1..Len(ConnectAttaches) :
                                            ConnectAttaches[j].frame.payload
                                              = [configuration |-> PinConfigs[1].config,
                                                 zero |-> Zero32]

\* A target other than the ESP8266 was attached with a pin configuration
\* word that is not zero.
C15_Witness ==
    /\ pc = "idle"
    /\ call.fn = "esp_loader_connect"
    /\ ret = ESP_LOADER_SUCCESS
    /\ s_target = "ESP32_CHIP"
    /\ Len(ConnectAttaches) = 1
    /\ ConnectAttaches[1].frame.payload.configuration = <<0, 2835>>
    /\ ConnectBegins = <<>>

\* C20 as stated: every request frame is preceded by a start_timer of the
\* core that came after the previous request frame: between two frames of a
\* call, and before its first frame, the deadline is armed.
C20_DeadlineArmedBeforeEveryFrame ==
    \A i \in 1..Len(events) :
        IsSend(events[i]) =>
            \E j \in 1..(i - 1) :
                /\ IsTimer(events[j])
                /\ \A k \in (j + 1)..(i - 1) : ~IsSend(events[k])

\* The polling reads of the CMD register a call has made so far.
CmdPolls(evs) ==
    SelectSeq(evs, LAMBDA x : IsSend(x) /\ x.frame.command = "READ_REG"
                              /\ x.frame.payload.address = "CMD")

\* The word a register read gets from rx: the first good reply's, if any.
Answered(rx) == FirstMatch(rx, "READ_REG") # 0 /\ rx[FirstMatch(rx, "READ_REG")].failed = 0
AnsweredWord(rx) == rx[FirstMatch(rx, "READ_REG")].value

\* C17 as stated: when the polling read that finds CMD_USR set is the tenth,
\* the flash command returns (TIMEOUT): it neither polls an eleventh time nor
\* goes on to read W0.
C17_TenBusyPollsTimeOut ==
    [][(/\ pc = "spi_poll"
        /\ Len(CmdPolls(events)) = 9
        /\ env'.fail = 0
        /\ Answered(env'.rx)
        /\ ~CmdIdle(AnsweredWord(env'.rx)))
       => pc' \notin {"spi_poll", "spi_read_w0"}]_vars

\* C18 as stated: a polling read that finds CMD_USR clear, whichever of the
\* ten it is, ends the polling, and the command goes on to read W0.
C18_IdlePollGoesOnToW0 ==
    [][(/\ pc = "spi_poll"
        /\ Len(CmdPolls(events)) <= 9
        /\ env'.fail = 0
        /\ Answered(env'.rx)
        /\ CmdIdle(AnsweredWord(env'.rx)))
       => (pc' = "spi_read_w0" /\ Len(CmdPolls(events')) = Len(CmdPolls(events)) + 1)]_vars

\* C19 as stated: between calls, flash_write_size is 0 whenever no streaming
\* operation is in progress: before the first start, after a start that
\* returned an error, and after a finish.
C19_WriteSizeZeroWhenNotStreaming ==
    (pc = "idle" /\ streaming = "none") => s_flash_write_size = Zero32

\* Bit b of the byte x, and the number of bytes of d that have it set.
BitOf(x, b) == (x \div (2 ^ b)) % 2
RECURSIVE Ones(_, _)
Ones(d, b) == IF d = <<>> THEN 0 ELSE BitOf(Head(d), b) + Ones(Tail(d), b)

\* The XOR of 0xEF and all the bytes of d, bit by bit: a bit is set when an
\* odd number of the nine bytes has it.
XorOfBytes(d) ==
    LET bit(b) == (BitOf(239, b) + Ones(d, b)) % 2
    IN  bit(0) + 2 * bit(1) + 4 * bit(2) + 8 * bit(3) + 16 * bit(4) + 32 * bit(5)
        + 64 * bit(6) + 128 * bit(7)

DataOps == {"FLASH_DATA", "FLASH_DEFL_DATA", "MEM_DATA"}

\* C16: the checksum field of every request frame is 0 unless its op is
\* FLASH_DATA, FLASH_DEFL_DATA or MEM_DATA; for those it is the XOR, seeded
\* with 0xEF, of the data bytes the frame puts on the wire behind the data
\* header (the padded block on the raw path; 0xEF for no data byte), and the
\* header announces that many bytes.
C16_ChecksumField ==
    \A i \in 1..Len(Sends) :
        LET f == Sends[i].frame
        IN  IF f.command \in DataOps
            THEN /\ f.checksum = XorOfBytes(Sends[i].data)
                 /\ f.payload.data_size = Len(Sends[i].data)
                 /\ f.size = 16 + Len(Sends[i].data)
            ELSE f.checksum = 0

\* A padded raw block went out with the checksum of all its 8 bytes, which
\* is not the one its 3 payload bytes alone would give.
C16_Witness ==
    /\ Len(DataFrames) = 1
    /\ DataFrames[1].parts = 4
    /\ call.fn = "esp_loader_flash_write"
    /\ Len(call.payload) = 3
    /\ Len(DataFrames[1].data) = 8
    /\ DataFrames[1].frame.checksum = XorOfBytes(DataFrames[1].data)
    /\ DataFrames[1].frame.checksum # XorOfBytes(call.payload)
    /\ DataFrames[1].frame.checksum # 0

\* The payload bytes a request frame puts behind its 8-byte header: the
\* 32-bit words of its payload (the SYNC pattern has 36 bytes), and for a data
\* command the 16-byte data header and the data.
PayloadBytes(s) ==
    IF s.frame.command \in DataOps THEN 16 + Len(s.data)
    ELSE IF s.frame.command = "SYNC" THEN 36
    ELSE 4 * Cardinality(DOMAIN s.frame.payload)

\* C21 as stated: in every request frame the size field of the common header
\* is the number of payload bytes that follow the header, for every size the
\* API accepts.
C21_SizeFieldIsPayloadLength ==
    \A i \in 1..Len(Sends) : Sends[i].frame.size = PayloadBytes(Sends[i])

ParamsFrames == SelectSeq(events, LAMBDA x : x.ev = "send" /\ x.frame.command = "SPI_SET_PARAMS")
FallbackPrints ==
    SelectSeq(events, LAMBDA x : x.ev = "debug_print"
                                 /\ x.str = "Flash size detection failed, falling back to default")
\* The sizes a flash chip has: 2^18 .. 2^24 bytes.
FlashSizes == {Shl1(c) : c \in 18..24}

\* C22 as stated: a start call that has sent its BEGIN command has sent exactly
\* one SPI_SET_PARAMS before it, with id 0, a flash size as total_size, 64 KiB
\* blocks, 4 KiB sectors, 256-byte pages and the status mask 0xFFFF, after a
\* probe that succeeded as well as after one that failed; and a start call
\* whose probe failed returns only after its BEGIN command.
C22_SpiParamsBeforeBegin ==
    call.fn \in StartCalls =>
        /\ Len(BeginFrames) > 0 =>
               /\ Len(ParamsFrames) = 1
               /\ ParamsFrames[1].frame.payload.id = Zero32
               /\ ParamsFrames[1].frame.payload.total_size \in FlashSizes
               /\ ParamsFrames[1].frame.payload.block_size = FromNat(65536)
               /\ ParamsFrames[1].frame.payload.sector_size = FromNat(4096)
               /\ ParamsFrames[1].frame.payload.page_size = FromNat(256)
               /\ ParamsFrames[1].frame.payload.status_mask = FromNat(65535)
               /\ \A i, j \in 1..Len(events) :
                      (events[i] = ParamsFrames[1] /\ events[j] = BeginFrames[1]) => i < j
        /\ (pc = "idle" /\ Len(FallbackPrints) > 0) => Len(BeginFrames) = 1

\* The last exchange of spi_flash_command, the write that restores USR2, went
\* through: the command returns success with the word it read from W0.
ProbeCommandDone ==
    /\ pc = "spi_restore_usr2"
    /\ esp_loader_write_register("USR2", spi.old_spi_usr2, env').err = ESP_LOADER_SUCCESS

\* C23 as stated: whatever word READ_ID left in W0, the probe takes bits 23:16
\* of it as the capacity code; it succeeds with the flash size 2^code exactly
\* when the code is in 0x12..0x18 (the start then does not fall back), and
\* fails with UNSUPPORTED_CHIP otherwise (the start falls back).
C23_CapacityByteOnly ==
    [][ProbeCommandDone =>
           LET capacity == spi.flash_id[1] % 256
               d == detect_flash_size(ESP_LOADER_SUCCESS, spi.flash_id)
           IN  IF capacity \in 18..24
               THEN /\ d.err = ESP_LOADER_SUCCESS
                    /\ d.flash_size = Shl1(capacity)
                    /\ FallbackPrints' = <<>>
               ELSE /\ d.err = ESP_LOADER_ERROR_UNSUPPORTED_CHIP
                    /\ Len(FallbackPrints') = 1]_vars

\* A start call has returned an error and has not sent its BEGIN command: it
\* returned IMAGE_SIZE, or its SPI_SET_PARAMS exchange failed.
FailedBeforeBegin ==
    /\ call.fn \in StartCalls
    /\ pc = "idle"
    /\ ret # ESP_LOADER_SUCCESS
    /\ Len(BeginFrames) = 0

\* C24 as stated: a start call that returns an error before its BEGIN command
\* is sent leaves the streaming state of the session as it was before the
\* call: flash_write_size, the sequence number, and the start address, image
\* size and accumulator of the MD5 state.  The start is the first of its
\* session here, so the values before the call are those of Init.
C24_FailedStartKeepsState ==
    FailedBeforeBegin =>
        /\ s_flash_write_size = Zero32
        /\ s_sequence_number = 0
        /\ s_start_address = Zero32
        /\ s_image_size = Zero32
        /\ s_md5_context = <<>>
        /\ md5_finalized = FALSE

\* The WRITE_REG frames to the register `address` among the port calls evs.
RegWrites(evs, address) ==
    SelectSeq(evs, LAMBDA x : x.ev = "send" /\ x.frame.command = "WRITE_REG"
                              /\ x.frame.payload.address = address)
LastWritten(evs, address) == RegWrites(evs, address)[Len(RegWrites(evs, address))].frame.payload.value

\* The steps of spi_flash_command behind the acknowledged write of the
\* command's own value to USR.
OverwrittenSteps == ProbeSteps \ {"spi_save_usr", "spi_save_usr2", "spi_set_len", "spi_write_usr"}

\* spi_flash_command returns, having overwritten USR.
SpiCommandReturns == pc \in OverwrittenSteps /\ pc' \notin ProbeSteps

\* C25 as stated: whenever spi_flash_command returns after it has overwritten
\* USR or USR2 (with success, with TIMEOUT from the polling of CMD, or with the
\* error of a later register exchange), the last value written to USR is the
\* value saved from USR at the beginning of the command, and the last value
\* written to USR2 the value saved from USR2.
C25_UsrRestoredOnEveryReturn ==
    [][SpiCommandReturns =>
           /\ LastWritten(events', "USR") = spi.old_spi_usr
           /\ LastWritten(events', "USR2") = spi.old_spi_usr2]_vars

====
